---- MODULE Spec2Model ----
(***************************************************************************)
(* Model of the Confluence page processor of atlassian-to-rag             *)
(* (src/atlassian_to_rag/processor.py) and of its collaborators.          *)
(*                                                                         *)
(* Python values are represented as follows.                               *)
(*   str          a sequence of one-character strings, <<"a", "b">>        *)
(*   None         the record [kind |-> "none"]                             *)
(*   absent key   the record [kind |-> "missing"]                          *)
(*   a str field  the record [kind |-> "str", val |-> <<...>>]             *)
(*   an exception the record [kind |-> "raise", exc |-> <class name>]      *)
(***************************************************************************)
EXTENDS Integers, Sequences, FiniteSets, TLC

(***************************************************************************)
(* Generic helpers on sequences.                                           *)
(***************************************************************************)
RECURSIVE Flatten(_)
Flatten(ss) == IF ss = <<>> THEN <<>> ELSE Head(ss) \o Flatten(Tail(ss))

RECURSIVE SeqsUpTo(_, _)
SeqsUpTo(S, n) ==
    IF n = 0 THEN {<<>>}
    ELSE LET shorter == SeqsUpTo(S, n - 1)
         IN  shorter \cup {Append(q, x) : q \in {r \in shorter : Len(r) = n - 1}, x \in S}

StartsWithAt(s, i, pre) ==
    /\ i + Len(pre) - 1 <= Len(s)
    /\ \A k \in 1..Len(pre) : s[i + k - 1] = pre[k]

PyStr(val) == [kind |-> "str", val |-> val]
None == [kind |-> "none"]
Missing == [kind |-> "missing"]
Raise(exc) == [kind |-> "raise", exc |-> exc]

(***************************************************************************)
(* html.parser as BeautifulSoup(markup, "html.parser") drives it, on the   *)
(* markup sublanguage of the model: tags with at most a class attribute of *)
(* one or more tokens, the entities &amp; &lt; &gt;, bare '&' and '<',     *)
(* script/style raw text.  Markup                                          *)
(* outside that sublanguage yields the event "unsupported" and is kept out *)
(* of every input set (see Supported).                                     *)
(***************************************************************************)
Letters == {"a", "b", "c", "d", "e", "g", "h", "i", "l", "m", "o", "p", "r", "s", "t", "v", "x", "y"}
Whitespace == {" "}

Emit(cur) == IF cur = <<>> THEN <<>> ELSE <<cur>>

RECURSIVE Split(_, _)
\* s.split(): the maximal runs of non-whitespace characters; cur is the run being read
Split(s, cur) ==
    IF s = <<>> THEN Emit(cur)
    ELSE IF Head(s) \in Whitespace THEN Emit(cur) \o Split(Tail(s), <<>>)
    ELSE Split(Tail(s), Append(cur, Head(s)))
CdataElements == {<<"s", "c", "r", "i", "p", "t">>, <<"s", "t", "y", "l", "e">>}

Entity(name) ==
    CASE name = <<"a", "m", "p">> -> "&"
      [] name = <<"l", "t">> -> "<"
      [] name = <<"g", "t">> -> ">"
      [] OTHER -> ""

RECURSIVE NameEnd(_, _)
\* the index after the run of letters that starts at i
NameEnd(s, i) == IF i <= Len(s) /\ s[i] \in Letters THEN NameEnd(s, i + 1) ELSE i

DataEv(c) == [t |-> "data", c |-> c]
\* class is the list of tokens BeautifulSoup makes of the class attribute
StartEv(name, class) == [t |-> "start", name |-> name, class |-> class]
EndEv(name) == [t |-> "end", name |-> name]
UnsupportedEv == [t |-> "unsupported"]

ClassPrefix == <<" ", "c", "l", "a", "s", "s", "=", "\"">>

RECURSIVE ValueEnd(_, _)
\* the index of the quote that closes the attribute value starting at i, or 0
ValueEnd(s, i) ==
    IF i > Len(s) THEN 0
    ELSE IF s[i] = "\"" THEN i
    ELSE IF s[i] \in Letters \cup Whitespace THEN ValueEnd(s, i + 1)
    ELSE 0

RECURSIVE Feed(_, _, _)
\* the parser events of s from index i on; cdata is the open script/style
\* element's name, or <<>>
Feed(s, i, cdata) ==
    IF i > Len(s) THEN (IF cdata = <<>> THEN <<>> ELSE <<UnsupportedEv>>)
    ELSE IF cdata # <<>> THEN
        LET closing == <<"<", "/">> \o cdata \o <<">">>
        IN  IF StartsWithAt(s, i, closing)
            THEN <<EndEv(cdata)>> \o Feed(s, i + Len(closing), <<>>)
            ELSE IF StartsWithAt(s, i, <<"<", "/">>)
            THEN <<UnsupportedEv>>
            ELSE <<DataEv(s[i])>> \o Feed(s, i + 1, cdata)
    ELSE IF s[i] = "<" THEN
        IF i = Len(s) THEN <<DataEv("<")>>
        ELSE IF s[i + 1] \in Letters THEN
            LET j == NameEnd(s, i + 1)
                name == SubSeq(s, i + 1, j - 1)
                q == ValueEnd(s, j + Len(ClassPrefix))
                class == Split(SubSeq(s, j + Len(ClassPrefix), q - 1), <<>>)
                cdataOf == IF name \in CdataElements THEN name ELSE <<>>
            IN  IF j <= Len(s) /\ s[j] = ">"
                THEN <<StartEv(name, <<>>)>> \o Feed(s, j + 1, cdataOf)
                ELSE IF /\ StartsWithAt(s, j, ClassPrefix)
                        /\ q > 0 /\ q < Len(s) /\ s[q + 1] = ">"
                        /\ class # <<>>
                THEN <<StartEv(name, class)>> \o Feed(s, q + 2, cdataOf)
                ELSE <<UnsupportedEv>>
        ELSE IF s[i + 1] = "/" THEN
            LET j == NameEnd(s, i + 2)
                name == SubSeq(s, i + 2, j - 1)
            IN  IF j > i + 2 /\ j <= Len(s) /\ s[j] = ">"
                THEN <<EndEv(name)>> \o Feed(s, j + 1, <<>>)
                ELSE <<UnsupportedEv>>
        ELSE <<DataEv("<")>> \o Feed(s, i + 1, <<>>)
    ELSE IF s[i] = "&" THEN
        IF i = Len(s) \/ s[i + 1] \notin Letters
        THEN <<DataEv("&")>> \o Feed(s, i + 1, <<>>)
        ELSE
            LET j == NameEnd(s, i + 1)
                name == SubSeq(s, i + 1, j - 1)
            IN  IF j <= Len(s) /\ s[j] = ";" /\ Entity(name) # ""
                THEN <<DataEv(Entity(name))>> \o Feed(s, j + 1, <<>>)
                ELSE <<UnsupportedEv>>
    ELSE <<DataEv(s[i])>> \o Feed(s, i + 1, <<>>)

Events(s) == Feed(s, 1, <<>>)

Supported(s) == \A k \in 1..Len(Events(s)) : Events(s)[k].t # "unsupported"

(***************************************************************************)
(* The strings of the parsed tree that get_text visits: one per maximal    *)
(* run of character data between two tags (BeautifulSoup ends the current  *)
(* string at every start and end tag).  decompose() on script and style    *)
(* removes the strings inside those elements.                              *)
(***************************************************************************)
RECURSIVE Nodes(_, _, _)
Nodes(ev, cur, removed) ==
    IF ev = <<>> THEN Emit(cur)
    ELSE LET e == Head(ev)
         IN  CASE e.t = "data" ->
                    Nodes(Tail(ev), IF removed THEN cur ELSE Append(cur, e.c), removed)
               [] e.t = "start" ->
                    Emit(cur) \o Nodes(Tail(ev), <<>>, e.name \in CdataElements)
               [] OTHER ->
                    Emit(cur) \o Nodes(Tail(ev), <<>>, FALSE)

RECURSIVE LStrip(_)
LStrip(s) == IF s # <<>> /\ Head(s) \in Whitespace THEN LStrip(Tail(s)) ELSE s

RECURSIVE RStrip(_)
RStrip(s) ==
    IF s # <<>> /\ s[Len(s)] \in Whitespace THEN RStrip(SubSeq(s, 1, Len(s) - 1)) ELSE s

Strip(s) == RStrip(LStrip(s))

RECURSIVE Join(_, _)
\* sep.join(parts)
Join(parts, sep) ==
    IF parts = <<>> THEN <<>>
    ELSE IF Len(parts) = 1 THEN Head(parts)
    ELSE Head(parts) \o sep \o Join(Tail(parts), sep)

\* soup.get_text(separator=" ", strip=True)
GetText(nodes) ==
    Join(SelectSeq([k \in 1..Len(nodes) |-> Strip(nodes[k])], LAMBDA n : n # <<>>), <<" ">>)

RECURSIVE FirstGt(_, _)
\* the index of the first ">" at or after i, or 0
FirstGt(s, i) ==
    IF i > Len(s) THEN 0 ELSE IF s[i] = ">" THEN i ELSE FirstGt(s, i + 1)

\* the text left as get_text returned it (mutation of TagPatternSub)
TagPatternKept(s, i) == SubSeq(s, i, Len(s))

RECURSIVE TagPatternSub(_, _)
\* re.compile("<[^>]+>").sub("", s), from index i on
TagPatternSub(s, i) ==
    IF i > Len(s) THEN <<>>
    ELSE LET j == FirstGt(s, i + 1)
         IN  IF s[i] = "<" /\ j > i + 1
             THEN TagPatternSub(s, j + 1)
             ELSE <<s[i]>> \o TagPatternSub(s, i + 1)

\* " ".join(text.split())
CollapseWhitespace(s) == Join(Split(s, <<>>), <<" ">>)

\* _process_text on markup that is a str
CleanText(markup) ==
    CollapseWhitespace(TagPatternSub(GetText(Nodes(Events(markup), <<>>, FALSE)), 1))

\* page.get("content", ""): the default only replaces an absent key
GetContent(page) == IF page.content.kind = "missing" THEN PyStr(<<>>) ELSE page.content

\* _process_text(page): BeautifulSoup(None, "html.parser") raises TypeError
ProcessText(page) ==
    LET content == GetContent(page)
    IN  IF content.kind = "str" THEN PyStr(CleanText(content.val)) ELSE Raise("TypeError")

(***************************************************************************)
(* The element tree BeautifulSoup builds from the parser events: an end    *)
(* tag closes the innermost open element of its name together with the     *)
(* elements opened inside it, and is dropped when no such element is open. *)
(***************************************************************************)
PyInt(n) == [kind |-> "int", val |-> n]
PyList(items) == [kind |-> "list", val |-> items]
PyDict(fields) == [kind |-> "dict", val |-> fields]

RECURSIVE TopmostNamed(_, _, _)
\* the highest position of stack whose element is named name, or 0
TopmostNamed(ev, stack, name) ==
    IF stack = <<>> THEN 0
    ELSE IF ev[stack[Len(stack)]].name = name THEN Len(stack)
    ELSE TopmostNamed(ev, SubSeq(stack, 1, Len(stack) - 1), name)

RECURSIVE ElementEndFrom(_, _, _, _)
ElementEndFrom(ev, i, stack, k) ==
    IF i > Len(ev) THEN Len(ev) + 1
    ELSE CASE ev[i].t = "start" -> ElementEndFrom(ev, i + 1, Append(stack, i), k)
           [] ev[i].t = "end" ->
                LET pos == TopmostNamed(ev, stack, ev[i].name)
                IN  IF pos = 0 THEN ElementEndFrom(ev, i + 1, stack, k)
                    ELSE IF \E q \in pos..Len(stack) : stack[q] = k THEN i
                    ELSE ElementEndFrom(ev, i + 1, SubSeq(stack, 1, pos - 1), k)
           [] OTHER -> ElementEndFrom(ev, i + 1, stack, k)

\* the index of the event that closes the element opened by event k
ElementEnd(ev, k) == ElementEndFrom(ev, 1, <<>>, k)

\* the events strictly inside the element opened by event k
Inside(ev, k) == SubSeq(ev, k + 1, ElementEnd(ev, k) - 1)

\* soup.find_all(names): the start events of the named elements, in document order
FindAll(ev, names) == SelectSeq([k \in 1..Len(ev) |-> k],
                                LAMBDA k : ev[k].t = "start" /\ ev[k].name \in names)

\* element.get_text(strip=True): separator ""
ElementText(ev) ==
    LET nodes == Nodes(ev, <<>>, FALSE)
    IN  Join(SelectSeq([k \in 1..Len(nodes) |-> Strip(nodes[k])], LAMBDA n : n # <<>>), <<>>)

\* not page.get("content")
ContentFalsy(page) ==
    \/ page.content.kind \in {"missing", "none"}
    \/ page.content.kind = "str" /\ page.content.val = <<>>

(***************************************************************************)
(* _process_code                                                           *)
(***************************************************************************)
\* soup.find_all("code") (mutation of CodeNames)
CodeNamesWithoutPre == {<<"c", "o", "d", "e">>}

CodeNames == {<<"c", "o", "d", "e">>, <<"p", "r", "e">>}

ProcessCode(page) ==
    IF ContentFalsy(page) THEN PyList(<<>>)
    ELSE LET ev == Events(page.content.val)
             found == FindAll(ev, CodeNames)
         IN  PyList([n \in 1..Len(found) |->
                    PyDict([language |-> IF ev[found[n]].class # <<>>
                                         THEN PyStr(ev[found[n]].class[1])
                                         ELSE PyStr(<<"t", "e", "x", "t">>),
                          content |-> PyStr(ElementText(Inside(ev, found[n])))])])

(***************************************************************************)
(* _process_tables: pd.read_html on each <table> element.  A table with no *)
(* text raises ValueError("No tables found") and is skipped.  The leading  *)
(* row of <th> cells gives the column labels, else the columns are the     *)
(* integers 0..n-1.                                                        *)
(***************************************************************************)
TableName == <<"t", "a", "b", "l", "e">>
RowName == <<"t", "r">>
ThName == <<"t", "h">>
TdName == <<"t", "d">>

RowCells(ev) ==
    LET cells == FindAll(ev, {ThName, TdName})
    IN  [n \in 1..Len(cells) |->
            [th |-> ev[cells[n]].name = ThName, text |-> ElementText(Inside(ev, cells[n]))]]

TableRows(ev) ==
    LET rows == FindAll(ev, {RowName})
    IN  [n \in 1..Len(rows) |-> RowCells(Inside(ev, rows[n]))]

IsHeaderRow(row) == row # <<>> /\ \A k \in 1..Len(row) : row[k].th

MaxWidth(rows) ==
    IF rows = <<>> THEN 0
    ELSE CHOOSE w \in {Len(rows[k]) : k \in 1..Len(rows)} :
            \A k \in 1..Len(rows) : Len(rows[k]) <= w

Digits == <<"0", "1", "2", "3", "4", "5", "6", "7", "8", "9">>
IsDigit(ch) == \E d \in 1..Len(Digits) : Digits[d] = ch
DigitValue(ch) == (CHOOSE d \in 1..Len(Digits) : Digits[d] = ch) - 1

RECURSIVE ParseInt(_, _)
\* int(s) for a string of digits, acc the value of the digits read
ParseInt(s, acc) ==
    IF s = <<>> THEN acc ELSE ParseInt(Tail(s), Len(Digits) * acc + DigitValue(Head(s)))

IsNumeric(text) == text # <<>> /\ \A k \in 1..Len(text) : IsDigit(text[k])

\* the tables of the model's sublanguage: every row has the same number of
\* cells, no cell of a table that has text is empty, the header cells are
\* distinct and not numbers, and only the first row can be a header row
Rectangular(rows) ==
    /\ \A r \in 1..Len(rows) : Len(rows[r]) = MaxWidth(rows)
    /\ \A r \in 1..Len(rows) : \A k \in 1..Len(rows[r]) : rows[r][k].text # <<>>
    /\ \A r \in 2..Len(rows) : ~IsHeaderRow(rows[r])
    /\ (rows # <<>> /\ IsHeaderRow(rows[1])) =>
          /\ Len(rows) > 1
          /\ \A k \in 1..Len(rows[1]) :
                /\ ~IsNumeric(rows[1][k].text)
                /\ \A q \in 1..Len(rows[1]) : rows[1][q].text = rows[1][k].text => q = k

UnsupportedTable == [kind |-> "unsupported"]

\* pd.read_html(...)[0] turned into the dict of lines 128-132: the parser
\* infers each column's dtype, so a column whose cells all read as integers
\* holds ints, and any other column holds the cells' strings
ReadHtml(ev) ==
    LET rows == TableRows(ev)
        hasHeader == rows # <<>> /\ IsHeaderRow(rows[1])
        body == IF hasHeader THEN Tail(rows) ELSE rows
        width == MaxWidth(rows)
        numeric(k) == \A r \in 1..Len(body) : IsNumeric(body[r][k].text)
        cell(r, k) == IF numeric(k) THEN PyInt(ParseInt(body[r][k].text, 0))
                      ELSE PyStr(body[r][k].text)
    IN  IF ~Rectangular(rows) THEN UnsupportedTable
        ELSE PyDict([headers |-> PyList(IF hasHeader
                                 THEN [k \in 1..width |-> PyStr(rows[1][k].text)]
                                 ELSE [k \in 1..width |-> PyInt(k - 1)]),
              data |-> PyList([r \in 1..Len(body) |-> PyList([k \in 1..width |-> cell(r, k)])]),
              shape |-> <<Len(body), width>>])

\* the table parses: it holds some text and at least one cell; otherwise
\* read_html raises ValueError("No tables found")
TableParses(ev) == ElementText(ev) # <<>> /\ MaxWidth(TableRows(ev)) > 0

\* the loop of lines 119-140 ended by the first table that fails to parse
\* (mutation of ProcessTables)
ProcessTablesUntilFailure(page) ==
    IF ContentFalsy(page) THEN PyList(<<>>)
    ELSE LET ev == Events(page.content.val)
             found == FindAll(ev, {TableName})
         IN  IF \E n \in 1..Len(found) : ~TableParses(Inside(ev, found[n]))
             THEN PyList(<<>>)
             ELSE PyList([n \in 1..Len(found) |-> ReadHtml(Inside(ev, found[n]))])

ProcessTables(page) ==
    IF ContentFalsy(page) THEN PyList(<<>>)
    ELSE LET ev == Events(page.content.val)
             found == SelectSeq(FindAll(ev, {TableName}),
                                LAMBDA k : TableParses(Inside(ev, k)))
         IN  PyList([n \in 1..Len(found) |-> ReadHtml(Inside(ev, found[n]))])

(***************************************************************************)
(* _process_metadata, _process_attachments, _process_comments              *)
(***************************************************************************)
\* d.get(key) or default: the default also replaces a null (mutation of Get)
GetOrDefault(d, key, default) == IF d[key].kind \in {"missing", "none"} THEN default ELSE d[key]

\* d.get(key, default): the default only replaces an absent key
Get(d, key, default) == IF d[key].kind = "missing" THEN default ELSE d[key]

Timestamp(t) == [kind |-> "timestamp", t |-> t]

\* now is the reading datetime.utcnow() returns
ProcessMetadata(page, now) ==
    PyDict([id |-> Get(page, "id", PyStr(<<>>)),
          title |-> Get(page, "title", PyStr(<<>>)),
          url |-> Get(page, "url", PyStr(<<>>)),
          version |-> Get(page, "version", PyStr(<<>>)),
          last_modified |-> Get(page, "last_modified", PyStr(<<>>)),
          source |-> PyStr(<<"c", "o", "n", "f", "l", "u", "e", "n", "c", "e">>),
          processed_at |-> Timestamp(now)])

\* iterating None raises TypeError
ProcessAttachments(page) ==
    LET attachments == Get(page, "attachments", PyList(<<>>))
    IN  IF attachments.kind # "list" THEN Raise("TypeError")
        ELSE PyList([n \in 1..Len(attachments.val) |->
                    PyDict([id |-> Get(attachments.val[n], "id", PyStr(<<>>)),
                          filename |-> Get(attachments.val[n], "filename", PyStr(<<>>)),
                          size |-> Get(attachments.val[n], "size", PyInt(0)),
                          media_type |-> Get(attachments.val[n], "mediaType", PyStr(<<>>))])])

\* the comments with their content copied as it is (mutation of ProcessComments)
ProcessCommentsRawContent(page) ==
    LET comments == Get(page, "comments", PyList(<<>>))
    IN  IF comments.kind # "list" THEN Raise("TypeError")
        ELSE PyList([n \in 1..Len(comments.val) |->
                PyDict([id |-> Get(comments.val[n], "id", PyStr(<<>>)),
                        author |-> Get(comments.val[n], "author", PyStr(<<>>)),
                        created |-> Get(comments.val[n], "created", PyStr(<<>>)),
                        content |-> Get(comments.val[n], "content", PyStr(<<>>))])])

\* one comment's content raising makes the whole list comprehension raise
ProcessComments(page) ==
    LET comments == Get(page, "comments", PyList(<<>>))
    IN  IF comments.kind # "list" THEN Raise("TypeError")
        ELSE LET texts == [n \in 1..Len(comments.val) |->
                            ProcessText([content |-> Get(comments.val[n], "content", PyStr(<<>>))])]
             IN  IF \E n \in 1..Len(texts) : texts[n].kind = "raise" THEN Raise("TypeError")
                 ELSE PyList([n \in 1..Len(comments.val) |->
                        PyDict([id |-> Get(comments.val[n], "id", PyStr(<<>>)),
                              author |-> Get(comments.val[n], "author", PyStr(<<>>)),
                              created |-> Get(comments.val[n], "created", PyStr(<<>>)),
                              content |-> texts[n]])])

(***************************************************************************)
(* ConfluenceProcessor.process_page.                                       *)
(*                                                                         *)
(* One ConfluenceProcessor serves the calls of Calls.  Each call runs on   *)
(* its own thread; the six processors of a call run as tasks of the call's *)
(* ThreadPoolExecutor.                                                     *)
(***************************************************************************)
VARIABLES
    metrics,            \* self.metrics: None, or a Metrics with config.enabled
    histogram,          \* Metrics.processing_time: the observations recorded
    req,                \* per call: the page passed and what the environment does
    pc,                 \* per call: the statement the calling thread is at
    start_time,         \* per call: the local start_time
    futures,            \* per call: the futures of the six submitted tasks
    cursor,             \* per call: the position of the loop over futures.items()
    processed_content,  \* per call: the local dict processed_content
    pending,            \* per call: the exception that is unwinding, if any
    result,             \* per call: the document returned, if any
    raised,             \* per call: the exception process_page raised, if any
    tracked,            \* per call: the arguments of its track_processing calls
    reordered,          \* per call: some task completed before an earlier submitted one
    overlapped,         \* some call started while another call was running
    txPage,             \* the page _process_text is applied to
    txResult,           \* what _process_text returned or raised for txPage
    txAgain,            \* what _process_text gives for the text it returned
    fnArg,              \* the argument of a method of the processor called on its own
    fnCall,             \* that call: the method's name and what it returned or raised
    cache_manager,      \* ConfluenceExtractor.cache_manager: None, or a CacheManager
    redis,              \* the entries of the cache: per key, the value and its expiry
    confluence,         \* per space, the batches the source answers with
    time,               \* the clock of the cache and of the rate limiter
    ex,                 \* the call of get_space_content: its locals and its outcome
    limiter,            \* the limit and the window given to rate_limit
    zset,               \* the sorted set of the rate limiter's key: its members' scores
    passed              \* the times of the calls the rate limiter let through

procVars == <<metrics, histogram, req, pc, start_time, futures, cursor,
              processed_content, pending, result, raised, tracked, reordered, overlapped>>
textVars == <<txPage, txResult, txAgain>>
fnVars == <<fnArg, fnCall>>
extVars == <<cache_manager, redis, confluence, time, ex>>
rlVars == <<limiter, zset, passed>>
vars == <<procVars, textVars, fnVars, extVars, rlVars>>

Calls == {"c1", "c2"}

\* self.content_processors, in insertion order
ProcessorNames == <<"text", "tables", "code", "metadata", "attachments", "comments">>
Names == {ProcessorNames[k] : k \in 1..Len(ProcessorNames)}
Position(name) == CHOOSE k \in 1..Len(ProcessorNames) : ProcessorNames[k] = name

MaxClock == 1
\* what datetime.now() and datetime.utcnow() can return: the wall clock may be set
\* back between two readings
ClockReadings == 0..MaxClock

Unset == [kind |-> "unset"]
NotDone == [kind |-> "notdone"]
NoValue == [kind |-> "novalue"]
NewFuture == [st |-> "new", out |-> NotDone]
RunningFuture == [st |-> "running", out |-> NotDone]

Markup1 ==
    <<"<", "p", ">", "x", " ", "&", "a", "m", "p", ";", " ", "y", "<", "/", "p", ">">>
    \o <<"<", "t", "a", "b", "l", "e", ">", "<", "t", "r", ">", "<", "t", "d", ">", "y">>
    \o <<"<", "/", "t", "d", ">", "<", "/", "t", "r", ">", "<", "/", "t", "a", "b", "l", "e", ">">>
    \o <<"<", "p", "r", "e", ">", "x", "<", "/", "p", "r", "e", ">">>

\* a page as get_single_page and extract_page build it, with one attachment and
\* one comment
PageA ==
    [id |-> PyStr(<<"1">>), title |-> PyStr(<<"T">>), content |-> PyStr(Markup1),
     url |-> PyStr(<<"u">>), version |-> PyInt(1), last_modified |-> PyStr(<<"d">>),
     attachments |-> PyList(<<[id |-> PyStr(<<"a">>), filename |-> PyStr(<<"f">>),
                               size |-> PyInt(3), mediaType |-> Missing]>>),
     comments |-> PyList(<<[id |-> PyStr(<<"k">>), author |-> PyStr(<<"w">>),
                            created |-> Missing,
                            content |-> PyStr(<<"<", "b", ">", "y", "<", "/", "b", ">">>)]>>)]

\* processor(page) for the processor registered under name
Extract(name, page, now) ==
    CASE name = "text" -> ProcessText(page)
      [] name = "tables" -> ProcessTables(page)
      [] name = "code" -> ProcessCode(page)
      [] name = "metadata" -> ProcessMetadata(page, now)
      [] name = "attachments" -> ProcessAttachments(page)
      [] name = "comments" -> ProcessComments(page)

\* The text, table and code extractors read nothing of the page but its
\* content: what they return for the markup of PageA
Markup1Extracts ==
    [text |-> ProcessText(PageA), tables |-> ProcessTables(PageA), code |-> ProcessCode(PageA)]

\* processor(page), read from Markup1Extracts for a page with that markup
Processed(name, page, now) ==
    IF name \in DOMAIN Markup1Extracts /\ page.content = PageA.content
    THEN Markup1Extracts[name]
    ELSE Extract(name, page, now)

\* a processor whose outcome depends on whether the text task has completed
\* (mutation of TaskOutcome)
TaskOutcomeAfterText(c, name, now) ==
    IF name \in req[c].faults \/ (name = "comments" /\ futures[c]["text"].st # "done")
    THEN Raise("RuntimeError")
    ELSE Extract(name, req[c].page, now)

\* what the task of call c for name ends with: the processor's value, or the
\* exception it raises (its own, or one the run meets, such as RecursionError)
TaskOutcome(c, name, now) ==
    IF name \in req[c].faults THEN Raise("RuntimeError")
    ELSE Processed(name, req[c].page, now)

\* every failed processor defaulted to a list (mutation of DefaultFor)
DefaultAlwaysList(name) == PyList(<<>>)

\* the default the except branch stores for a failed processor
DefaultFor(name) ==
    CASE name = "text" -> PyStr(<<>>)
      [] name = "metadata" -> PyDict(<<>>)
      [] OTHER -> PyList(<<>>)

\* processed_content kept on the processor, one dict for all calls (mutation of
\* ContentSlot)
ContentSlotShared(c) == "c1"

\* processed_content is a local of the call
ContentSlot(c) == c

\* a read of the future that does not wait (mutation of ResultReady)
ResultWithoutWaiting(c, name) == TRUE

\* future.result() returns once the task has completed
ResultReady(c, name) == futures[c][name].st = "done"

\* the except branch starting a new dict (mutation of AfterFailure)
AfterFailureResetAll(content, name) ==
    [n \in Names |-> IF n = name THEN DefaultFor(name) ELSE Unset]

\* the except branch of the loop: only processed_content[name] is assigned
AfterFailure(content, name) == [content EXCEPT ![name] = DefaultFor(name)]

\* shutdown(wait=False) (mutation of ShutdownReady)
ShutdownWithoutWaiting(c) == TRUE

\* executor.__exit__: shutdown(wait=True) returns once no submitted task is running
ShutdownReady(c) == \A name \in Names : futures[c][name].st # "running"

\* d.get(key, default) on processed_content
GetOr(content, name, default) == IF content[name] = Unset THEN default ELSE content[name]

\* the dict literal of lines 84-91
Assembled(content) ==
    [content |-> GetOr(content, "text", PyStr(<<>>)),
     metadata |-> GetOr(content, "metadata", PyDict(<<>>)),
     tables |-> GetOr(content, "tables", PyList(<<>>)),
     code_blocks |-> GetOr(content, "code", PyList(<<>>)),
     attachments |-> GetOr(content, "attachments", PyList(<<>>)),
     comments |-> GetOr(content, "comments", PyList(<<>>))]

Unknown == <<"u", "n", "k", "n", "o", "w", "n">>

\* a ProcessingError without details (mutation of ProcessingErrorFor)
ProcessingErrorWithoutDetails(page) ==
    [kind |-> "raise", exc |-> "ProcessingError", details |-> NoValue]

\* the ProcessingError of lines 106-109
ProcessingErrorFor(page) ==
    [kind |-> "raise", exc |-> "ProcessingError",
     details |-> [page_id |-> Get(page, "id", PyStr(Unknown))]]

(***************************************************************************)
(* The pages, environments and metrics collaborators of the model.         *)
(***************************************************************************)
\* a page without id whose content and whose comment's content are null
PageB ==
    [id |-> Missing, title |-> Missing, content |-> None,
     url |-> Missing, version |-> Missing, last_modified |-> Missing,
     attachments |-> Missing,
     comments |-> PyList(<<[id |-> PyStr(<<"k">>), author |-> Missing,
                            created |-> Missing, content |-> None]>>)]

\* a page with empty content and null attachments
PageC ==
    [id |-> PyStr(<<"2">>), title |-> PyStr(<<>>), content |-> PyStr(<<>>),
     url |-> Missing, version |-> PyInt(2), last_modified |-> None,
     attachments |-> None, comments |-> Missing]

Pages == {PageA, PageB, PageC}

MaxFaults == 2
MaxHang == 1
FaultSets == {F \in SUBSET Names : Cardinality(F) <= MaxFaults}
HangSets == {H \in SUBSET Names : Cardinality(H) <= MaxHang}

\* what the environment does to a call: the processors that raise whatever the
\* page, and the processors that never return
Environments ==
    {[faults |-> F, hang |-> {}] : F \in FaultSets}
    \cup {[faults |-> {}, hang |-> H] : H \in HangSets}

\* a request: the page, its environment, and the readings datetime.now() can
\* give while the call runs
Requests ==
    {[page |-> p, faults |-> e.faults, hang |-> e.hang, clock |-> ClockReadings] :
        p \in Pages, e \in Environments}

NoMetrics == [kind |-> "none", enabled |-> FALSE]
MetricsChoices == {NoMetrics} \cup {[kind |-> "Metrics", enabled |-> b] : b \in BOOLEAN}

AllUnset == [name \in Names |-> Unset]
AllNew == [name \in Names |-> NewFuture]

TextIdle ==
    /\ txPage = [content |-> Missing]
    /\ txResult = NoValue
    /\ txAgain = NoValue

FnIdle ==
    /\ fnArg = NoValue
    /\ fnCall = NoValue

\* no extractor and no rate limiter
ServicesIdle ==
    /\ cache_manager = FALSE
    /\ redis = <<>>
    /\ confluence = <<>>
    /\ time = 0
    /\ ex = NoValue
    /\ limiter = NoValue
    /\ zset = {}
    /\ passed = <<>>

\* the processor after __init__, with the calls of invoked about to run
ProcessorInit(invoked) ==
    /\ metrics \in MetricsChoices
    /\ histogram = <<>>
    /\ pc = [c \in Calls |-> IF c \in invoked THEN "start" ELSE "idle"]
    /\ start_time = [c \in Calls |-> 0]
    /\ futures = [c \in Calls |-> AllNew]
    /\ cursor = [c \in Calls |-> 1]
    /\ processed_content = [c \in Calls |-> AllUnset]
    /\ pending = [c \in Calls |-> NoValue]
    /\ result = [c \in Calls |-> NoValue]
    /\ raised = [c \in Calls |-> NoValue]
    /\ tracked = [c \in Calls |-> <<>>]
    /\ reordered = [c \in Calls |-> FALSE]
    /\ overlapped = FALSE

IdleRequest == [page |-> PageC, faults |-> {}, hang |-> {}, clock |-> {0}]

\* one call of process_page, for any page under any environment
Init ==
    /\ ProcessorInit({"c1"})
    /\ \E r \in Requests : req = [c \in Calls |-> IF c = "c1" THEN r ELSE IdleRequest]
    /\ TextIdle
    /\ FnIdle
    /\ ServicesIdle

(***************************************************************************)
(* The steps of a call c of process_page.                                  *)
(***************************************************************************)
\* lines 56-58: start_time = datetime.now(); processed_content = {}
Start(c) ==
    /\ pc[c] = "start"
    /\ \E now \in req[c].clock : start_time' = [start_time EXCEPT ![c] = now]
    /\ processed_content' = [processed_content EXCEPT ![ContentSlot(c)] = AllUnset]
    /\ pc' = [pc EXCEPT ![c] = "submit"]
    /\ overlapped' = (overlapped \/ \E other \in Calls \ {c} : pc[other] \notin {"idle", "start", "done"})
    /\ UNCHANGED <<metrics, histogram, req, futures, cursor, pending, result, raised,
                   tracked, reordered, textVars, fnVars, extVars, rlVars>>

\* lines 59-63: the executor is created and the six processors are submitted
Submit(c) ==
    /\ pc[c] = "submit"
    /\ futures' = [futures EXCEPT ![c] = [name \in Names |-> RunningFuture]]
    /\ cursor' = [cursor EXCEPT ![c] = 1]
    /\ pc' = [pc EXCEPT ![c] = "gather"]
    /\ UNCHANGED <<metrics, histogram, req, start_time, processed_content, pending,
                   result, raised, tracked, reordered, overlapped, textVars, fnVars, extVars, rlVars>>

\* lines 59-63: executor.submit raises RuntimeError("can't start new thread") at
\* the k-th processor and the exception leaves the with block.  submit queues
\* the work item before it starts a thread, so the threads of the earlier
\* tasks, when there are any, run the k-th task too.
SubmitFails(c) ==
    /\ pc[c] = "submit"
    /\ \E k \in 1..Len(ProcessorNames) :
          futures' = [futures EXCEPT ![c] =
                        [name \in Names |->
                            IF Position(name) < k \/ (Position(name) = k /\ k > 1)
                            THEN RunningFuture ELSE NewFuture]]
    /\ pending' = [pending EXCEPT ![c] = [kind |-> "raise", exc |-> "RuntimeError", at |-> "submit"]]
    /\ pc' = [pc EXCEPT ![c] = "exit"]
    /\ UNCHANGED <<metrics, histogram, req, start_time, cursor, processed_content,
                   result, raised, tracked, reordered, overlapped, textVars, fnVars, extVars, rlVars>>

\* a worker thread runs processor(page) to its end
RunTask(c, name) ==
    /\ futures[c][name].st = "running"
    /\ name \notin req[c].hang
    /\ \E now \in (IF name = "metadata" THEN req[c].clock ELSE {0}) :
          futures' = [futures EXCEPT ![c][name] =
                        [st |-> "done", out |-> TaskOutcome(c, name, now)]]
    /\ reordered' = [reordered EXCEPT ![c] =
                        @ \/ \E other \in Names :
                                /\ Position(other) < Position(name)
                                /\ futures[c][other].st = "running"]
    /\ UNCHANGED <<metrics, histogram, req, pc, start_time, cursor, processed_content,
                   pending, result, raised, tracked, overlapped, textVars, fnVars, extVars, rlVars>>

\* lines 65-81: one iteration of the loop over futures.items()
Gather(c) ==
    LET name == ProcessorNames[cursor[c]]
        out == futures[c][name].out
    IN  /\ pc[c] = "gather"
        /\ ResultReady(c, name)
        /\ processed_content' =
              [processed_content EXCEPT ![ContentSlot(c)] =
                  IF out.kind = "raise" THEN AfterFailure(@, name)
                  ELSE [@ EXCEPT ![name] = out]]
        /\ cursor' = [cursor EXCEPT ![c] = @ + 1]
        /\ pc' = [pc EXCEPT ![c] = IF cursor[c] = Len(ProcessorNames) THEN "exit" ELSE "gather"]
        /\ UNCHANGED <<metrics, histogram, req, start_time, futures, pending, result,
                       raised, tracked, reordered, overlapped, textVars, fnVars, extVars, rlVars>>

\* the end of the with block: executor.shutdown(wait=True)
Shutdown(c) ==
    /\ pc[c] = "exit"
    /\ ShutdownReady(c)
    /\ pc' = [pc EXCEPT ![c] = IF pending[c] = NoValue THEN "assemble" ELSE "except"]
    /\ UNCHANGED <<metrics, histogram, req, start_time, futures, cursor,
                   processed_content, pending, result, raised, tracked, reordered, overlapped, textVars, fnVars, extVars, rlVars>>

\* lines 84-91
Assemble(c) ==
    /\ pc[c] = "assemble"
    /\ result' = [result EXCEPT ![c] = Assembled(processed_content[ContentSlot(c)])]
    /\ pc' = [pc EXCEPT ![c] = "track"]
    /\ UNCHANGED <<metrics, histogram, req, start_time, futures, cursor,
                   processed_content, pending, raised, tracked, reordered, overlapped, textVars, fnVars, extVars, rlVars>>

\* an observation whatever config.enabled (mutation of TrackProcessing)
TrackProcessingAlways(observations, enabled, operation, duration) ==
    Append(observations, [operation |-> operation, duration |-> duration])

\* Metrics.track_processing: observes only when config.enabled
TrackProcessing(observations, enabled, operation, duration) ==
    IF enabled THEN Append(observations, [operation |-> operation, duration |-> duration])
    ELSE observations

\* lines 94-98: the elapsed time is recorded when self.metrics is set, and the
\* document is returned
Track(c) ==
    /\ pc[c] = "track"
    /\ \E now \in req[c].clock :
          LET processing_time == now - start_time[c]
          IN  IF metrics.kind = "none"
              THEN UNCHANGED <<histogram, tracked>>
              ELSE /\ tracked' = [tracked EXCEPT ![c] =
                          Append(@, [operation |-> "page", duration |-> processing_time])]
                   /\ histogram' = TrackProcessing(histogram, metrics.enabled,
                                                   "page", processing_time)
    /\ pc' = [pc EXCEPT ![c] = "done"]
    /\ UNCHANGED <<metrics, req, start_time, futures, cursor, processed_content,
                   pending, result, raised, reordered, overlapped, textVars, fnVars, extVars, rlVars>>

\* lines 100-109: the exception that left the try block becomes a ProcessingError
RaiseProcessingError(c) ==
    /\ pc[c] = "except"
    /\ raised' = [raised EXCEPT ![c] = ProcessingErrorFor(req[c].page)]
    /\ pc' = [pc EXCEPT ![c] = "done"]
    /\ UNCHANGED <<metrics, histogram, req, start_time, futures, cursor,
                   processed_content, pending, result, tracked, reordered, overlapped, textVars, fnVars, extVars, rlVars>>

Next ==
    \E c \in Calls :
        \/ Start(c)
        \/ Submit(c)
        \/ SubmitFails(c)
        \/ \E name \in Names : RunTask(c, name)
        \/ Gather(c)
        \/ Shutdown(c)
        \/ Assemble(c)
        \/ Track(c)
        \/ RaiseProcessingError(c)

Spec == Init /\ [][Next]_vars

(***************************************************************************)
(* Vocabulary of the properties of process_page.                           *)
(***************************************************************************)
Returned(c) == pc[c] = "done" /\ raised[c] = NoValue
HasRaised(c) == pc[c] = "done" /\ raised[c] # NoValue
TaskFailed(c, name) == futures[c][name].st = "done" /\ futures[c][name].out.kind = "raise"
FailedTasks(c) == {name \in Names : TaskFailed(c, name)}

\* the field of the document that holds the value of the processor name
FieldOf(name) ==
    CASE name = "text" -> "content"
      [] name = "code" -> "code_blocks"
      [] OTHER -> name

DeclaredKind(name) ==
    CASE name = "text" -> "str"
      [] name = "metadata" -> "dict"
      [] OTHER -> "list"

EmptyOfKind(kind) ==
    CASE kind = "str" -> [kind |-> "str", val |-> <<>>]
      [] kind = "dict" -> [kind |-> "dict", val |-> <<>>]
      [] OTHER -> [kind |-> "list", val |-> <<>>]

\* a metadata value with processed_at blanked
WithoutProcessedAt(value) ==
    IF value.kind = "dict" /\ value.val # <<>>
    THEN [value EXCEPT !.val.processed_at = Timestamp(0)]
    ELSE value

\* what the processor name gives for the request r when it runs alone: its value,
\* or the empty value of its kind when it raises
Alone(name, r) ==
    LET out == IF name \in r.faults THEN Raise("RuntimeError") ELSE Processed(name, r.page, 0)
    IN  IF out.kind = "raise" THEN EmptyOfKind(DeclaredKind(name)) ELSE out

\* the document of a request whose processors run one after the other
SequentialDocument(r) ==
    [content |-> Alone("text", r), metadata |-> Alone("metadata", r),
     tables |-> Alone("tables", r), code_blocks |-> Alone("code", r),
     attachments |-> Alone("attachments", r), comments |-> Alone("comments", r)]

DocumentWithoutProcessedAt(doc) == [doc EXCEPT !.metadata = WithoutProcessedAt(@)]

(***************************************************************************)
(* C1.  Whichever processors raise, a call whose six tasks were submitted  *)
(* does not raise: it returns a document with the six fields content,      *)
(* metadata, tables, code_blocks, attachments, comments, each of its       *)
(* declared type (str, dict, list, list, list, list).                      *)
(***************************************************************************)
C1_ReturnsTypedDocument ==
    \A c \in Calls :
        (pc[c] = "done" /\ pending[c] = NoValue) =>
            /\ raised[c] = NoValue
            /\ DOMAIN result[c] =
                 {"content", "metadata", "tables", "code_blocks", "attachments", "comments"}
            /\ \A name \in Names : result[c][FieldOf(name)].kind = DeclaredKind(name)

C1_Witness ==
    \E c \in Calls :
        /\ Returned(c)
        /\ TaskFailed(c, "text") /\ TaskFailed(c, "metadata")
        /\ result[c].content = PyStr(<<>>)

(***************************************************************************)
(* C2.  In the returned document the field of a processor that raised is   *)
(* the empty value of its kind, and every other field is what its own      *)
(* processor returned, which is what it returns when no processor fails.   *)
(***************************************************************************)
C2_OnlyFailedFieldDefaulted ==
    \A c \in Calls :
        Returned(c) =>
            \A name \in Names :
                IF TaskFailed(c, name)
                THEN result[c][FieldOf(name)] = EmptyOfKind(DeclaredKind(name))
                ELSE /\ result[c][FieldOf(name)] = futures[c][name].out
                     /\ WithoutProcessedAt(result[c][FieldOf(name)])
                            = WithoutProcessedAt(Processed(name, req[c].page, 0))

C2_Witness ==
    \E c \in Calls :
        /\ Returned(c)
        /\ FailedTasks(c) = {"attachments"}
        /\ req[c].page = PageA
        /\ result[c].tables.val # <<>>
        /\ result[c].comments.val # <<>>

(***************************************************************************)
(* C3 as stated.  process_page raises only when assembling the document    *)
(* fails, after every processor has returned or been defaulted.            *)
(***************************************************************************)
C3_RaisesOnlyAtAssembly ==
    \A c \in Calls :
        HasRaised(c) =>
            /\ raised[c].exc = "ProcessingError"
            /\ \A name \in Names : processed_content[ContentSlot(c)][name] # Unset

(***************************************************************************)
(* C3 amended.  process_page raises only when a statement of its try block *)
(* outside the per-processor handler fails (starting a task of the pool);  *)
(* the error is then a ProcessingError whose details carry the page id, or *)
(* "unknown" for a page without id, and it is raised once the tasks        *)
(* already started have completed.  No failure of a processor makes        *)
(* process_page raise and no exception of another type leaves it.          *)
(***************************************************************************)
C3_RaisesProcessingErrorOnly ==
    \A c \in Calls :
        /\ HasRaised(c) =>
              /\ raised[c].exc = "ProcessingError"
              /\ raised[c].details # NoValue
              /\ raised[c].details.page_id =
                    (IF req[c].page.id.kind = "missing" THEN PyStr(Unknown) ELSE req[c].page.id)
              /\ pending[c] # NoValue /\ pending[c].at = "submit"
              /\ \A name \in Names : futures[c][name].st # "running"
              /\ result[c] = NoValue
        /\ (pc[c] = "done" /\ FailedTasks(c) # {} /\ pending[c] = NoValue) => raised[c] = NoValue

C3_Witness ==
    \E c \in Calls :
        /\ HasRaised(c)
        /\ req[c].page.id.kind = "str"
        /\ TaskFailed(c, "text")
        /\ futures[c]["comments"].st = "new"

(***************************************************************************)
(* C4.  The document is assembled and returned only after every task of    *)
(* the call has completed, and no field is taken from a task that has not  *)
(* completed.                                                              *)
(***************************************************************************)
C4_AssemblesAfterAllTasks ==
    \A c \in Calls :
        /\ \A name \in Names : processed_content[ContentSlot(c)][name] # NotDone
        /\ (pc[c] \in {"assemble", "track"} \/ Returned(c)) =>
              \A name \in Names : futures[c][name].st = "done"
        /\ result[c] # NoValue =>
              \A name \in Names : result[c][FieldOf(name)] # NotDone

C4_Witness ==
    \E c \in Calls :
        /\ pc[c] = "track"
        /\ reordered[c]
        /\ \A name \in Names : futures[c][name].st = "done"
        /\ FailedTasks(c) = {"tables"}

(***************************************************************************)
(* C5.  The document a call returns is the document of its request with    *)
(* the processors run one after the other, processed_at apart: it does not *)
(* depend on the order in which the tasks complete.                        *)
(***************************************************************************)
C5_OrderIndependent ==
    \A c \in Calls :
        Returned(c) =>
            DocumentWithoutProcessedAt(result[c])
                = DocumentWithoutProcessedAt(SequentialDocument(req[c]))

C5_Witness ==
    \E c \in Calls :
        /\ Returned(c)
        /\ reordered[c]
        /\ req[c].page = PageA
        /\ FailedTasks(c) = {}
        /\ result[c].metadata.val.processed_at # Timestamp(0)

(***************************************************************************)
(* C8 as stated.  A call that returns a document has recorded exactly one  *)
(* observation, of operation "page" and of a duration >= 0, on the metrics *)
(* collaborator when one is configured, and nothing otherwise.             *)
(***************************************************************************)
C8_OneNonNegativeObservation ==
    \A c \in Calls :
        Returned(c) =>
            IF metrics.kind = "none" THEN histogram = <<>>
            ELSE /\ Len(histogram) = 1
                 /\ histogram[1].operation = "page"
                 /\ histogram[1].duration >= 0

(***************************************************************************)
(* C8 amended.  A call that returns a document has called track_processing *)
(* exactly once when self.metrics is set, after all its tasks completed,   *)
(* with operation "page" and the difference of two readings of the wall    *)
(* clock, which is negative when the clock was set back; the collaborator  *)
(* records that observation only when its config is enabled.  With         *)
(* self.metrics None nothing is recorded, and the document is the same in  *)
(* all three cases.  A call that has not returned has recorded nothing.    *)
(***************************************************************************)
C8_TracksOncePerReturn ==
    \A c \in Calls :
        /\ Returned(c) =>
              /\ \A name \in Names : futures[c][name].st = "done"
              /\ Len(tracked[c]) = (IF metrics.kind = "none" THEN 0 ELSE 1)
              /\ \A k \in 1..Len(tracked[c]) :
                    /\ tracked[c][k].operation = "page"
                    /\ tracked[c][k].duration + start_time[c] \in ClockReadings
              /\ DocumentWithoutProcessedAt(result[c])
                    = DocumentWithoutProcessedAt(SequentialDocument(req[c]))
        /\ ~Returned(c) => tracked[c] = <<>>
        /\ histogram = (IF metrics.enabled THEN tracked["c1"] \o tracked["c2"] ELSE <<>>)
           \/ histogram = (IF metrics.enabled THEN tracked["c2"] \o tracked["c1"] ELSE <<>>)

C8_Witness ==
    \E c \in Calls :
        /\ Returned(c)
        /\ metrics.kind = "Metrics" /\ ~metrics.enabled
        /\ Len(tracked[c]) = 1
        /\ tracked[c][1].duration < 0
        /\ histogram = <<>>

(***************************************************************************)
(* Two calls of process_page running concurrently on one processor, each   *)
(* for its own page.                                                       *)
(***************************************************************************)
InitCalls ==
    /\ ProcessorInit(Calls)
    /\ req = [c \in Calls |->
                [page |-> IF c = "c1" THEN PageA ELSE PageB, faults |-> {}, hang |-> {},
                 clock |-> {0}]]
    /\ TextIdle
    /\ FnIdle
    /\ ServicesIdle

SpecCalls == InitCalls /\ [][Next]_vars

(***************************************************************************)
(* C6.  Each of two concurrent calls returns the document of its own       *)
(* request run alone, processed_at apart, and the metrics collaborator,    *)
(* when there is one, receives one track_processing call per call that     *)
(* returned.                                                               *)
(***************************************************************************)
C6_CallsDoNotInterfere ==
    /\ \A c \in Calls :
          Returned(c) =>
              /\ DocumentWithoutProcessedAt(result[c])
                    = DocumentWithoutProcessedAt(SequentialDocument(req[c]))
              /\ metrics.kind # "none" => Len(tracked[c]) = 1
    /\ metrics.enabled => Len(histogram) = Cardinality({c \in Calls : Returned(c)})
    /\ \A k \in 1..Len(histogram) : histogram[k].operation = "page"

C6_Witness ==
    /\ overlapped
    /\ \A c \in Calls : Returned(c)
    /\ result["c1"].content # result["c2"].content
    /\ Len(histogram) = 2

(***************************************************************************)
(* The calls under a fair scheduler: while a calling thread can take a     *)
(* step one is taken, and while a worker has a task to finish one is       *)
(* finished.  A processor of req[c].hang never returns.                    *)
(***************************************************************************)
CallerStep(c) ==
    \/ Start(c) \/ Submit(c) \/ SubmitFails(c) \/ Gather(c) \/ Shutdown(c)
    \/ Assemble(c) \/ Track(c) \/ RaiseProcessingError(c)

\* one call, for a page without markup, some of whose processors may never
\* return
InitFair ==
    /\ ProcessorInit({"c1"})
    /\ \E p \in {PageB, PageC} : \E H \in HangSets :
          req = [c \in Calls |->
                   IF c = "c1"
                   THEN [page |-> p, faults |-> {}, hang |-> H, clock |-> {0}]
                   ELSE IdleRequest]
    /\ TextIdle
    /\ FnIdle
    /\ ServicesIdle

FairSpec ==
    /\ InitFair
    /\ [][Next]_vars
    /\ WF_vars(\E c \in Calls : CallerStep(c))
    /\ WF_vars(\E c \in Calls : \E name \in Names : RunTask(c, name))

(***************************************************************************)
(* C7.  A call finishes only when none of the tasks it started is still    *)
(* running, so it never finishes while a processor hangs; and once all its *)
(* started tasks have finished the call eventually finishes.               *)
(***************************************************************************)
TasksFinished(c) ==
    /\ pc[c] \in {"gather", "exit", "assemble", "track", "except"}
    /\ \A name \in Names : futures[c][name].st # "running"

C7_FinishesIffTasksFinish ==
    \A c \in Calls :
        /\ [](pc[c] = "done" => \A name \in Names : futures[c][name].st # "running")
        /\ TasksFinished(c) ~> pc[c] = "done"

C7_Witness ==
    \E c \in Calls :
        /\ req[c].hang = {"comments"}
        /\ pc[c] = "gather" /\ cursor[c] = 6
        /\ \A name \in Names \ {"comments"} : futures[c][name].st = "done"
        /\ futures[c]["comments"].st = "running"

(***************************************************************************)
(* _process_text applied to a page, and again to the text it returned.     *)
(***************************************************************************)
MaxPieces == 3

Pieces ==
    {<<"x">>, <<" ">>,
     <<"&", "a", "m", "p", ";">>, <<"&", "l", "t", ";">>, <<"&", "g", "t", ";">>,
     <<"l", "t", ";">>,
     <<"<", "p", ">">>, <<"<", "/", "p", ">">>,
     <<"<", "s", "c", "r", "i", "p", "t", ">">>, <<"<", "/", "s", "c", "r", "i", "p", "t", ">">>}

\* the markup of the model's sublanguage whose text stays in the sublanguage
Markups ==
    {m \in {Flatten(q) : q \in SeqsUpTo(Pieces, MaxPieces)} :
        Supported(m) /\ Supported(CleanText(m))}

TextPages ==
    {[content |-> Missing], [content |-> None]} \cup {[content |-> PyStr(m)] : m \in Markups}

\* two adjacent block elements, <p>a</p><div>b</div>, for texts a and b
MaxBlockPieces == 2

BlockPieces ==
    {<<"x">>, <<" ">>, <<"x", " ", "x">>, <<"&", "l", "t", ";">>, <<"&", "g", "t", ";">>}

BlockTexts == {Flatten(q) : q \in SeqsUpTo(BlockPieces, MaxBlockPieces)}

Element(name, inner) == <<"<">> \o name \o <<">">> \o inner \o <<"<", "/">> \o name \o <<">">>

BlockPair(a, b) == Element(<<"p">>, a) \o Element(<<"d", "i", "v">>, b)

BlockPages ==
    {[content |-> PyStr(m)] :
        m \in {n \in {BlockPair(a, b) : a \in BlockTexts, b \in BlockTexts} :
                  Supported(n) /\ Supported(CleanText(n))}}

InitText ==
    /\ ProcessorInit({})
    /\ metrics = NoMetrics
    /\ req = [c \in Calls |-> IdleRequest]
    /\ txPage \in TextPages \cup BlockPages
    /\ txResult = NoValue
    /\ txAgain = NoValue
    /\ FnIdle
    /\ ServicesIdle

\* processor._process_text(page)
CallProcessText ==
    /\ txResult = NoValue
    /\ txResult' = ProcessText(txPage)
    /\ UNCHANGED <<txPage, txAgain, procVars, fnVars, extVars, rlVars>>

\* processor._process_text({"content": text}) for the text just returned
CallProcessTextAgain ==
    /\ txResult # NoValue /\ txResult.kind = "str"
    /\ txAgain = NoValue
    /\ txAgain' = ProcessText([content |-> txResult])
    /\ UNCHANGED <<txPage, txResult, procVars, fnVars, extVars, rlVars>>

NextText == CallProcessText \/ CallProcessTextAgain

SpecText == InitText /\ [][NextText]_vars

(***************************************************************************)
(* C9.  _process_text is idempotent: applied to the text it returned, it   *)
(* returns that text unchanged.                                            *)
(***************************************************************************)
C9_Idempotent == txAgain # NoValue => txAgain = txResult

(***************************************************************************)
(* C10.  _process_text never raises, and gives the empty string for a page *)
(* whose content is empty, absent or null.                                 *)
(***************************************************************************)
C10_NeverRaises ==
    txResult # NoValue =>
        /\ txResult.kind = "str"
        /\ txPage.content \in {Missing, None, PyStr(<<>>)} => txResult.val = <<>>

(***************************************************************************)
(* The shape of the text _process_text returns.                            *)
(***************************************************************************)
\* s has a substring '<' + one or more characters other than '>' + '>'
HasTagForm(s) ==
    \E i \in 1..Len(s) :
        /\ s[i] = "<"
        /\ \E j \in (i + 2)..Len(s) : s[j] = ">" /\ \A k \in (i + 1)..(j - 1) : s[k] # ">"

HasWhitespaceRun(s) == \E i \in 1..(Len(s) - 1) : s[i] \in Whitespace /\ s[i + 1] \in Whitespace

HasOuterWhitespace(s) == s # <<>> /\ (s[1] \in Whitespace \/ s[Len(s)] \in Whitespace)

NonEmpty(parts) == SelectSeq(parts, LAMBDA part : part # <<>>)

\* the text of an element whose markup inside is inner, as get_text gives it
StrippedText(inner) == GetText(Nodes(Events(inner), <<>>, FALSE))

(***************************************************************************)
(* C11 as stated.  The text _process_text returns has no substring of the  *)
(* tag form, no run of two whitespace characters, no leading or trailing   *)
(* whitespace, and for two adjacent block elements it is their two texts   *)
(* with exactly one space between them.                                    *)
(***************************************************************************)
C11_TextsOneSpaceApart ==
    (txResult # NoValue /\ txResult.kind = "str") =>
        /\ ~HasTagForm(txResult.val)
        /\ ~HasWhitespaceRun(txResult.val)
        /\ ~HasOuterWhitespace(txResult.val)
        /\ \A a \in BlockTexts : \A b \in BlockTexts :
              txPage.content = PyStr(BlockPair(a, b)) =>
                  txResult.val = Join(NonEmpty(<<CleanText(a), CleanText(b)>>), <<" ">>)

(***************************************************************************)
(* C11 amended.  The text _process_text returns has no substring of the    *)
(* tag form, no run of two whitespace characters and no leading or         *)
(* trailing whitespace; for two adjacent block elements it is their two    *)
(* texts with exactly one space between them, provided the two texts so    *)
(* joined have no substring of the tag form (escaped entities can make     *)
(* one, even across the two elements, and it is then removed).             *)
(***************************************************************************)
C11_NormalForm ==
    (txResult # NoValue /\ txResult.kind = "str") =>
        /\ ~HasTagForm(txResult.val)
        /\ ~HasWhitespaceRun(txResult.val)
        /\ ~HasOuterWhitespace(txResult.val)
        /\ \A a \in BlockTexts : \A b \in BlockTexts :
              (/\ txPage.content = PyStr(BlockPair(a, b))
               /\ ~HasTagForm(Join(NonEmpty(<<StrippedText(a), StrippedText(b)>>), <<" ">>)))
              => txResult.val = Join(NonEmpty(<<CleanText(a), CleanText(b)>>), <<" ">>)

C11_Witness ==
    /\ txPage.content = PyStr(BlockPair(<<"x", " ", "x">>, <<" ", "x", " ", "x">>))
    /\ txResult = PyStr(<<"x", " ", "x", " ", "x", " ", "x">>)

(***************************************************************************)
(* A processor of self.content_processors called on its own, on a page.    *)
(***************************************************************************)
\* a page with the fields of get_single_page and no attachments or comments
PlainPage ==
    [id |-> PyStr(<<"1">>), title |-> PyStr(<<"T">>), content |-> PyStr(<<>>),
     url |-> PyStr(<<"u">>), version |-> PyInt(1), last_modified |-> PyStr(<<"d">>),
     attachments |-> Missing, comments |-> Missing]

\* a table given by its header cells (th, none for a table without header
\* row) and its rows of data cells (td), and its markup
RenderCells(name, texts) == Flatten([k \in 1..Len(texts) |-> Element(name, texts[k])])

RenderRow(name, texts) == Element(RowName, RenderCells(name, texts))

RenderTable(t) ==
    Element(TableName,
            (IF t.th = <<>> THEN <<>> ELSE RenderRow(ThName, t.th))
            \o Flatten([r \in 1..Len(t.td) |-> RenderRow(TdName, t.td[r])]))

\* tables that parse, and tables that do not: one without rows, one whose only
\* cell is empty
TableCatalogue ==
    {[th |-> <<<<"a">>>>, td |-> <<<<<<"1">>>>>>],
     [th |-> <<>>, td |-> <<<<<<"x">>, <<"y">>>>>>],
     [th |-> <<>>, td |-> <<<<<<"1">>>>, <<<<"x">>>>>>],
     [th |-> <<<<"a">>, <<"b">>>>, td |-> <<<<<<"x">>, <<"1">>>>, <<<<"y">>, <<"2">>>>>>],
     [th |-> <<>>, td |-> <<>>],
     [th |-> <<>>, td |-> <<<<<<>>>>>>]}

MaxTables == 3

TableSeqs == SeqsUpTo(TableCatalogue, MaxTables)

Leads == {<<>>, Element(<<"p">>, <<"x">>)}

RenderTables(lead, ts) == lead \o Flatten([n \in 1..Len(ts) |-> RenderTable(ts[n])])

TablePages ==
    {[PlainPage EXCEPT !.content = PyStr(RenderTables(lead, ts))] :
        lead \in Leads, ts \in TableSeqs}

\* an element given by its name, the tokens of its class attribute and its
\* visible text, and its markup
Escape(text) ==
    Flatten([k \in 1..Len(text) |->
                CASE text[k] = "&" -> <<"&", "a", "m", "p", ";">>
                  [] text[k] = "<" -> <<"&", "l", "t", ";">>
                  [] text[k] = ">" -> <<"&", "g", "t", ";">>
                  [] OTHER -> <<text[k]>>])

RenderElement(e) ==
    <<"<">> \o e.name
    \o (IF e.class = <<>> THEN <<>> ELSE ClassPrefix \o Join(e.class, <<" ">>) \o <<"\"">>)
    \o <<">">> \o Escape(e.text) \o <<"<", "/">> \o e.name \o <<">">>

ElementCatalogue ==
    {[name |-> <<"c", "o", "d", "e">>, class |-> <<>>, text |-> <<"x">>],
     [name |-> <<"p", "r", "e">>, class |-> <<<<"p", "y">>>>, text |-> <<" ", "y", " ">>],
     [name |-> <<"c", "o", "d", "e">>, class |-> <<<<"s", "h">>, <<"x">>>>,
      text |-> <<"x", "<", "y", " ", "&", " ", "1">>],
     [name |-> <<"p">>, class |-> <<<<"x">>>>, text |-> <<"x">>]}

MaxElements == 3

ElementSeqs == SeqsUpTo(ElementCatalogue, MaxElements)

RenderElements(es) == Flatten([n \in 1..Len(es) |-> RenderElement(es[n])])

CodePages ==
    {[PlainPage EXCEPT !.content = PyStr(RenderElements(es))] : es \in ElementSeqs}
    \cup {[PlainPage EXCEPT !.content = c] : c \in {Missing, None}}

\* comments as get_comments builds them, with fields absent, and one whose
\* content is null
CommentCatalogue ==
    {[id |-> PyStr(<<"k">>), author |-> PyStr(<<"w">>), created |-> PyStr(<<"d">>),
      content |-> PyStr(Element(<<"b">>, <<"y">>))],
     [id |-> Missing, author |-> Missing, created |-> Missing, content |-> Missing],
     [id |-> PyStr(<<"j">>), author |-> Missing, created |-> PyStr(<<"d">>),
      content |-> PyStr(<<"x", " ", "&", "a", "m", "p", ";", " ", " ", "y">>)],
     [id |-> PyStr(<<"n">>), author |-> PyStr(<<"w">>), created |-> Missing, content |-> None]}

MaxComments == 2

CommentPages ==
    {[PlainPage EXCEPT !.comments = PyList(ks)] : ks \in SeqsUpTo(CommentCatalogue, MaxComments)}

ProcessorPages == TablePages \cup CodePages \cup CommentPages

InitProcessor ==
    /\ ProcessorInit({})
    /\ metrics = NoMetrics
    /\ req = [c \in Calls |-> IdleRequest]
    /\ TextIdle
    /\ fnArg \in ProcessorPages
    /\ fnCall = NoValue
    /\ ServicesIdle

\* self.content_processors[name](page)
CallProcessor(name) ==
    /\ fnCall = NoValue
    /\ \E now \in (IF name = "metadata" THEN ClockReadings ELSE {0}) :
          fnCall' = [name |-> name, out |-> Extract(name, fnArg, now)]
    /\ UNCHANGED <<fnArg, procVars, textVars, extVars, rlVars>>

NextProcessor == \E name \in Names : CallProcessor(name)

SpecProcessor == InitProcessor /\ [][NextProcessor]_vars

Called(name) == fnCall # NoValue /\ fnCall.name = name

\* a table of the catalogue has a cell with text
HasText(t) == t.th # <<>> \/ \E r \in 1..Len(t.td) : \E k \in 1..Len(t.td[r]) : t.td[r][k] # <<>>

TableShape(t) == <<Len(t.td), IF t.th # <<>> THEN Len(t.th) ELSE Len(t.td[1])>>

(***************************************************************************)
(* C12.  _process_tables does not raise and returns one entry per table    *)
(* that parses, in document order: a table that fails to parse is skipped  *)
(* and the others are returned, and a page without table gives [].         *)
(***************************************************************************)
C12_OneEntryPerParsedTable ==
    Called("tables") =>
        \A lead \in Leads : \A ts \in TableSeqs :
            fnArg.content = PyStr(RenderTables(lead, ts)) =>
                LET valid == SelectSeq(ts, HasText)
                IN  /\ fnCall.out.kind = "list"
                    /\ Len(fnCall.out.val) = Len(valid)
                    /\ \A n \in 1..Len(valid) :
                          fnCall.out.val[n].val.shape = TableShape(valid[n])

C12_Witness ==
    /\ Called("tables")
    /\ \E ts \in TableSeqs :
          /\ fnArg.content = PyStr(RenderTables(<<>>, ts))
          /\ Len(ts) = 3 /\ HasText(ts[1]) /\ ~HasText(ts[2]) /\ HasText(ts[3])
          /\ TableShape(ts[1]) # TableShape(ts[3])
    /\ Len(fnCall.out.val) = 2

(***************************************************************************)
(* C13.  For a table without header row the headers of its entry are the   *)
(* positional column indices as strings, "0", "1", ..., one per column.    *)
(***************************************************************************)
C13_PositionalHeadersAreStrings ==
    Called("tables") =>
        \A lead \in Leads : \A ts \in TableSeqs :
            fnArg.content = PyStr(RenderTables(lead, ts)) =>
                LET valid == SelectSeq(ts, HasText)
                IN  \A n \in 1..Len(valid) :
                        valid[n].th = <<>> =>
                            LET headers == fnCall.out.val[n].val.headers.val
                            IN  /\ Len(headers) = Len(valid[n].td[1])
                                /\ \A k \in 1..Len(headers) :
                                      /\ headers[k].kind = "str"
                                      /\ headers[k].val = <<Digits[k]>>

(***************************************************************************)
(* One call of process_page whose processors meet no failure of the        *)
(* environment, for the page of the end-to-end scenario and for pages with *)
(* some of the metadata fields absent or null.                             *)
(***************************************************************************)
Hello == <<"H", "e", "l", "l", "o">>

ScenarioTable == [th |-> <<<<"A">>>>, td |-> <<<<<<"1">>>>>>]

\* {id: "1", title: "T", content: "<p>Hello</p><table>...</table>", url: "u",
\*  version: 1, last_modified: "2024-01-01T00:00:00"}
ScenarioPage ==
    [id |-> PyStr(<<"1">>), title |-> PyStr(<<"T">>),
     content |-> PyStr(Element(<<"p">>, Hello) \o RenderTable(ScenarioTable)),
     url |-> PyStr(<<"u">>), version |-> PyInt(1),
     last_modified |-> PyStr(<<"2", "0", "2", "4", "-", "0", "1", "-", "0", "1", "T",
                              "0", "0", ":", "0", "0", ":", "0", "0">>),
     attachments |-> Missing, comments |-> Missing]

MetadataPages ==
    {[PlainPage EXCEPT !.id = id, !.title = title, !.version = version,
                       !.url = rest, !.last_modified = rest] :
        id \in {Missing, None, PyStr(<<"1">>)},
        title \in {Missing, PyStr(<<"T">>)},
        version \in {Missing, PyInt(1)},
        rest \in {Missing, PyStr(<<"u">>)}}

InitPages ==
    /\ ProcessorInit({"c1"})
    /\ \E p \in {ScenarioPage} \cup MetadataPages :
          req = [c \in Calls |->
                   IF c = "c1"
                   THEN [page |-> p, faults |-> {}, hang |-> {}, clock |-> ClockReadings]
                   ELSE IdleRequest]
    /\ TextIdle
    /\ FnIdle
    /\ ServicesIdle

SpecPages == InitPages /\ [][Next]_vars

(***************************************************************************)
(* C14.  For the page of the scenario the content of the document          *)
(* process_page returns is exactly "Hello": the text of the table's cells  *)
(* is not part of it.                                                      *)
(***************************************************************************)
C14_ContentWithoutTableText ==
    \A c \in Calls :
        (Returned(c) /\ req[c].page = ScenarioPage) => result[c].content = PyStr(Hello)

(***************************************************************************)
(* C15.  For the page of the scenario the document has tables[0].headers   *)
(* == ["A"] and tables[0].data == [["1"]]: the headers are the texts of    *)
(* the <th> row and every data cell is the string of its text.             *)
(***************************************************************************)
C15_CellsAreStrings ==
    \A c \in Calls :
        (Returned(c) /\ req[c].page = ScenarioPage) =>
            /\ Len(result[c].tables.val) = 1
            /\ LET table == result[c].tables.val[1].val
               IN  /\ table.headers = PyList(<<PyStr(<<"A">>)>>)
                   /\ Len(table.data.val) = 1
                   /\ Len(table.data.val[1].val) = 1
                   /\ table.data.val[1].val[1].kind = "str"
                   /\ table.data.val[1].val[1].val = <<"1">>

\* two Python values are equal
SameValue(a, b) == a.kind = b.kind /\ a = b

Confluence == <<"c", "o", "n", "f", "l", "u", "e", "n", "c", "e">>

ProjectedFields == {"id", "title", "url", "version", "last_modified"}

(***************************************************************************)
(* C16.  _process_metadata does not raise; id, title, url, version and     *)
(* last_modified of its result are the page's values, the empty string for *)
(* a field the page does not have; source is "confluence" and processed_at *)
(* is set.  In the document process_page returns, metadata.id is the       *)
(* page's id.                                                              *)
(***************************************************************************)
C16_MetadataIsProjection ==
    \A c \in Calls :
        /\ futures[c]["metadata"].st = "done" =>
              LET out == futures[c]["metadata"].out
              IN  /\ out.kind = "dict"
                  /\ \A field \in ProjectedFields :
                        SameValue(out.val[field],
                                  IF req[c].page[field] = Missing THEN PyStr(<<>>)
                                  ELSE req[c].page[field])
                  /\ out.val.source = PyStr(Confluence)
                  /\ out.val.processed_at.kind = "timestamp"
        /\ (Returned(c) /\ req[c].page.id # Missing) =>
              SameValue(result[c].metadata.val.id, req[c].page.id)

C16_Witness ==
    \E c \in Calls :
        /\ Returned(c)
        /\ req[c].page.id = None /\ req[c].page.title = Missing
        /\ req[c].page.version = PyInt(1)
        /\ result[c].metadata.val.id = None
        /\ result[c].metadata.val.title = PyStr(<<>>)

TextLanguage == <<"t", "e", "x", "t">>

(***************************************************************************)
(* C17.  _process_code returns one entry per <code> or <pre> element of    *)
(* the content, in document order; the language of an entry is the first   *)
(* token of the element's class, "text" for an element without class, and  *)
(* its content is the element's text; empty or missing content gives [].   *)
(***************************************************************************)
C17_OneEntryPerCodeElement ==
    Called("code") =>
        /\ fnCall.out.kind = "list"
        /\ ContentFalsy(fnArg) => fnCall.out.val = <<>>
        /\ \A es \in ElementSeqs :
              fnArg.content = PyStr(RenderElements(es)) =>
                  LET code == SelectSeq(es, LAMBDA e : e.name \in {<<"c", "o", "d", "e">>, <<"p", "r", "e">>})
                  IN  fnCall.out.val =
                        [n \in 1..Len(code) |->
                            PyDict([language |-> PyStr(IF code[n].class = <<>> THEN TextLanguage
                                                       ELSE code[n].class[1]),
                                    content |-> PyStr(Strip(code[n].text))])]

C17_Witness ==
    /\ Called("code")
    /\ Len(fnCall.out.val) = 3
    /\ fnCall.out.val[1].val.language = PyStr(<<"p", "y">>)
    /\ fnCall.out.val[2].val.language = PyStr(TextLanguage)
    /\ fnCall.out.val[3].val.language = PyStr(<<"s", "h">>)
    /\ fnCall.out.val[3].val.content = PyStr(<<"x", "<", "y", " ", "&", " ", "1">>)

OrEmpty(value) == IF value = Missing THEN PyStr(<<>>) ELSE value

PyFloat(num, den) == [kind |-> "float", num |-> num, den |-> den]

\* bool(value)
Truthy(value) ==
    CASE value.kind \in {"str", "list"} -> value.val # <<>>
      [] value.kind = "dict" -> DOMAIN value.val # {}
      [] value.kind = "int" -> value.val # 0
      [] OTHER -> FALSE

RECURSIVE Sum(_)
Sum(ns) == IF ns = <<>> THEN 0 ELSE Head(ns) + Sum(Tail(ns))

\* len(s.split()): the number of places of s where a token starts
WordCount(s) ==
    Cardinality({k \in 1..Len(s) : s[k] \notin Whitespace /\ (k = 1 \/ s[k - 1] \in Whitespace)})

\* round(total / count, 2): the nearest multiple of 0.01, the even one of
\* two equally near
RoundedAverage(total, count) ==
    LET scaled == 100 * total
        low == scaled \div count
        twice == 2 * (scaled % count)
    IN  PyFloat(IF twice > count \/ (twice = count /\ low % 2 = 1) THEN low + 1 ELSE low, 100)

\* s is YYYY-MM-DD or YYYY-MM-DDTHH:MM:SS
IsoShape(s) ==
    LET dateShape == <<"d", "d", "d", "d", "-", "d", "d", "-", "d", "d">>
        shape == IF Len(s) = Len(dateShape) THEN dateShape
                 ELSE dateShape \o <<"T", "d", "d", ":", "d", "d", ":", "d", "d">>
    IN  /\ Len(s) = Len(shape)
        /\ \A k \in 1..Len(s) : IF shape[k] = "d" THEN IsDigit(s[k]) ELSE s[k] = shape[k]

\* datetime.fromisoformat(value) as the string isoformat() gives back for it,
\* for the dates of the model: a string that does not start with a digit
\* raises ValueError, a value that is not a string TypeError
FromIsoFormat(value) ==
    IF value.kind # "str" THEN Raise("TypeError")
    ELSE IF IsoShape(value.val)
    THEN PyStr(IF Len(value.val) = 10
               THEN value.val \o <<"T", "0", "0", ":", "0", "0", ":", "0", "0">>
               ELSE value.val)
    ELSE Raise("ValueError")

RECURSIVE Earlier(_, _)
\* a < b for two datetimes given by their isoformat strings
Earlier(a, b) ==
    /\ a # <<>>
    /\ \/ IsDigit(a[1]) /\ IsDigit(b[1]) /\ DigitValue(a[1]) < DigitValue(b[1])
       \/ a[1] = b[1] /\ Earlier(Tail(a), Tail(b))

\* page.get(key, default) for a document given as a dict
Field(doc, key, default) ==
    IF key \in DOMAIN doc.val THEN doc.val[key] ELSE default

EmptyDict == PyDict(<<>>)

\* the body of the try block of generate_summary; now is the reading of
\* datetime.utcnow()
SummaryOf(pages, now) ==
    LET total_pages == Len(pages)
        contents == [n \in 1..total_pages |-> Field(pages[n], "content", PyStr(<<>>))]
        lists(key) == [n \in 1..total_pages |-> Field(pages[n], key, PyList(<<>>))]
        sized(values) == \A n \in 1..total_pages : values[n].kind \in {"str", "list"}
        total(values) == Sum([n \in 1..total_pages |-> Len(values[n].val)])
        metadatas == [n \in 1..total_pages |-> Field(pages[n], "metadata", EmptyDict)]
        modified(n) == Field(metadatas[n], "last_modified", None)
        dated == SelectSeq([n \in 1..total_pages |-> n], LAMBDA n : Truthy(modified(n)))
        dates == [k \in 1..Len(dated) |-> FromIsoFormat(modified(dated[k]))]
        oldest == CHOOSE a \in 1..Len(dates) :
                    \A b \in 1..Len(dates) : ~Earlier(dates[b].val, dates[a].val)
        newest == CHOOSE a \in 1..Len(dates) :
                    \A b \in 1..Len(dates) : ~Earlier(dates[a].val, dates[b].val)
        total_words == Sum([n \in 1..total_pages |-> WordCount(contents[n].val)])
    IN  IF total_pages = 0
        THEN PyDict([total_pages |-> PyInt(0), generated_at |-> Timestamp(now)])
        ELSE IF \E n \in 1..total_pages : contents[n].kind # "str" THEN Raise("AttributeError")
        ELSE IF ~(sized(lists("tables")) /\ sized(lists("code_blocks")) /\ sized(lists("comments")))
        THEN Raise("TypeError")
        ELSE IF \E n \in 1..total_pages : metadatas[n].kind # "dict" THEN Raise("AttributeError")
        ELSE IF \E k \in 1..Len(dates) : dates[k].kind = "raise"
        THEN dates[CHOOSE k \in 1..Len(dates) : dates[k].kind = "raise"]
        ELSE PyDict(
            [total_pages |-> PyInt(total_pages),
             total_words |-> PyInt(total_words),
             total_tables |-> PyInt(total(lists("tables"))),
             total_code_blocks |-> PyInt(total(lists("code_blocks"))),
             total_comments |-> PyInt(total(lists("comments"))),
             averages |-> PyDict(
                [words_per_page |-> RoundedAverage(total_words, total_pages),
                 tables_per_page |-> RoundedAverage(total(lists("tables")), total_pages),
                 code_blocks_per_page |->
                     RoundedAverage(total(lists("code_blocks")), total_pages),
                 comments_per_page |->
                     RoundedAverage(total(lists("comments")), total_pages)]),
             date_range |-> PyDict(
                [oldest_page |-> IF dates = <<>> THEN None ELSE dates[oldest],
                 newest_page |-> IF dates = <<>> THEN None ELSE dates[newest]]),
             generated_at |-> Timestamp(now)])

\* the handler of lines 385-387: ProcessingError(message), no details
AnalyzerError(operation) ==
    [kind |-> "raise", exc |-> "ProcessingError", operation |-> operation, details |-> None]

GenerateSummary(pages, now) ==
    IF SummaryOf(pages, now).kind = "raise" THEN AnalyzerError("generate_summary")
    ELSE SummaryOf(pages, now)

RECURSIVE Gcd(_, _)
Gcd(a, b) == IF b = 0 THEN a ELSE Gcd(b, a % b)

\* the float num / den in lowest terms
Fraction(num, den) ==
    LET g == Gcd(IF num < 0 THEN -num ELSE num, den)
    IN  PyFloat(num \div g, den \div g)

FloatAdd(a, b) ==
    LET common == (a.den * b.den) \div Gcd(a.den, b.den)
    IN  Fraction(a.num * (common \div a.den) + b.num * (common \div b.den), common)

FloatLess(a, b) == a.num * b.den < b.num * a.den

RECURSIVE FloatSum(_)
FloatSum(scores) ==
    IF scores = <<>> THEN PyFloat(0, 1) ELSE FloatAdd(Head(scores), FloatSum(Tail(scores)))

\* np.mean(scores)
Mean(scores) ==
    Fraction(FloatSum(scores).num, FloatSum(scores).den * Len(scores))

\* (float(min(scores)), float(max(scores)))
Range(scores) ==
    LET at(least) == CHOOSE a \in 1..Len(scores) : \A b \in 1..Len(scores) :
                        IF least THEN ~FloatLess(scores[b], scores[a])
                        ELSE ~FloatLess(scores[a], scores[b])
    IN  <<scores[at(TRUE)], scores[at(FALSE)]>>

SentenceEnd == {".", "!", "?"}

\* len(re.split(r"[.!?]+", content)): one piece more than there are runs of
\* sentence terminators
Sentences(content) ==
    1 + Cardinality({k \in 1..Len(content) :
            /\ content[k] \in SentenceEnd
            /\ (k = Len(content) \/ content[k + 1] \notin SentenceEnd)})

\* 206.835 - 1.015 * words / max(sentences, 1), without max and min (mutation
\* of Readability)
ReadabilityUnclamped(content) ==
    LET words == WordCount(content)
        sentences == IF Sentences(content) > 1 THEN Sentences(content) ELSE 1
    IN  Fraction(206835 * sentences - 1015 * words, 1000 * sentences)

\* max(0, min(100, 206.835 - 1.015 * words / max(sentences, 1)))
Readability(content) ==
    LET words == WordCount(content)
        sentences == IF Sentences(content) > 1 THEN Sentences(content) ELSE 1
        score == Fraction(206835 * sentences - 1015 * words, 1000 * sentences)
    IN  IF FloatLess(score, PyFloat(0, 1)) THEN PyFloat(0, 1)
        ELSE IF FloatLess(PyFloat(100, 1), score) THEN PyFloat(100, 1)
        ELSE score

\* sub in s
Contains(s, sub) == \E k \in 1..Len(s) : StartsWithAt(s, k, sub)

FormattingIndicators ==
    {<<"<", "h", "1", ">">>, <<"<", "h", "2", ">">>, <<"<", "p", ">">>,
     <<"<", "t", "a", "b", "l", "e", ">">>, <<"<", "c", "o", "d", "e", ">">>}

\* the share, in percent, of the keys whose value in d is truthy
Completeness(d, keys) ==
    PyFloat(20 * Cardinality({key \in keys : Truthy(Field(d, key, None))}), 1)

RequiredFields == {"content", "metadata", "tables", "code_blocks", "comments"}
RequiredMetadata == {"id", "title", "url", "version", "last_modified"}

\* the body of the try block of analyze_content_quality
QualityOf(pages) ==
    LET count == Len(pages)
        contents == [n \in 1..count |-> Field(pages[n], "content", PyStr(<<>>))]
        metadatas == [n \in 1..count |-> Field(pages[n], "metadata", EmptyDict)]
        readability_scores == [n \in 1..count |-> Readability(contents[n].val)]
        content_completeness == [n \in 1..count |-> Completeness(pages[n], RequiredFields)]
        metadata_completeness ==
            [n \in 1..count |-> Completeness(metadatas[n], RequiredMetadata)]
        formatting_quality ==
            [n \in 1..count |->
                PyFloat(20 * Cardinality({sub \in FormattingIndicators :
                                            Contains(contents[n].val, sub)}), 1)]
        zeros == <<PyInt(0), PyInt(0)>>
    IN  IF count = 0
        THEN PyDict(
            [averages |-> PyDict([readability |-> PyInt(0), content_completeness |-> PyInt(0),
                                  metadata_completeness |-> PyInt(0),
                                  formatting_quality |-> PyInt(0)]),
             ranges |-> PyDict([readability |-> zeros, content_completeness |-> zeros,
                                metadata_completeness |-> zeros,
                                formatting_quality |-> zeros]),
             quality_score |-> PyInt(0)])
        ELSE IF \E n \in 1..count : contents[n].kind # "str" \/ metadatas[n].kind # "dict"
        THEN Raise("AttributeError")
        ELSE PyDict(
            [averages |-> PyDict(
                [readability |-> Mean(readability_scores),
                 content_completeness |-> Mean(content_completeness),
                 metadata_completeness |-> Mean(metadata_completeness),
                 formatting_quality |-> Mean(formatting_quality)]),
             ranges |-> PyDict(
                [readability |-> Range(readability_scores),
                 content_completeness |-> Range(content_completeness),
                 metadata_completeness |-> Range(metadata_completeness),
                 formatting_quality |-> Range(formatting_quality)]),
             quality_score |->
                Mean(<<Mean(readability_scores), Mean(content_completeness),
                       Mean(metadata_completeness), Mean(formatting_quality)>>)])

AnalyzeContentQuality(pages) ==
    IF QualityOf(pages).kind = "raise" THEN AnalyzerError("analyze_content_quality")
    ELSE QualityOf(pages)

(***************************************************************************)
(* The corpus analyzer called on a list of documents.                      *)
(***************************************************************************)
\* a content of n words
WordsText(n) == [k \in 1..(2 * n - 1) |-> IF k % 2 = 1 THEN "x" ELSE " "]

\* the metadata _process_metadata gives, with the given last_modified
MetadataWith(last_modified) ==
    PyDict([id |-> PyStr(<<"1">>), title |-> PyStr(<<"T">>), url |-> PyStr(<<"u">>),
            version |-> PyInt(1), last_modified |-> last_modified,
            processed_at |-> Timestamp(0)])

\* a document as process_page returns it
Document(content, metadata, tables, code_blocks, comments) ==
    PyDict([content |-> PyStr(content), metadata |-> metadata,
            tables |-> PyList([k \in 1..tables |-> EmptyDict]),
            code_blocks |-> PyList([k \in 1..code_blocks |-> EmptyDict]),
            attachments |-> PyList(<<>>),
            comments |-> PyList([k \in 1..comments |-> EmptyDict])])

\* the words of a content without sentence terminator whose score is below 0
\* before the clamp, and those of a sentence that scores between 0 and 100 when
\* it counts as one sentence
ManyWords == 1000
LongSentence == 150

DocumentCatalogue ==
    {Document(WordsText(10),
              MetadataWith(PyStr(<<"2", "0", "2", "4", "-", "0", "1", "-", "0", "2", "T",
                                   "0", "0", ":", "0", "0", ":", "0", "0">>)), 1, 0, 2),
     Document(WordsText(19) \o <<".", " ", "x", "!", "?">>,
              MetadataWith(PyStr(<<"2", "0", "2", "4", "-", "0", "1", "-", "0", "1">>)), 0, 1, 0),
     Document(<<>>, EmptyDict, 0, 0, 0),
     Document(<<"x">>, MetadataWith(PyStr(<<>>)), 0, 0, 1),
     Document(<<"<", "p", ">", "x", ".">>,
              MetadataWith(PyStr(<<"y", "e", "s", "t", "e", "r", "d", "a", "y">>)), 1, 1, 1),
     PyDict([content |-> PyStr(<<"x", " ", "x", ".", " ", "x">>)]),
     Document(WordsText(ManyWords), MetadataWith(None), 0, 0, 0),
     Document(WordsText(LongSentence) \o <<".">>, MetadataWith(None), 0, 0, 0)}

MaxDocuments == 3

DocumentLists == SeqsUpTo(DocumentCatalogue, MaxDocuments)

InitCorpus ==
    /\ ProcessorInit({})
    /\ metrics = NoMetrics
    /\ req = [c \in Calls |-> IdleRequest]
    /\ TextIdle
    /\ fnArg \in DocumentLists
    /\ fnCall = NoValue
    /\ ServicesIdle

\* processor.generate_summary(processed_pages)
CallGenerateSummary ==
    /\ fnCall = NoValue
    /\ \E now \in ClockReadings :
          fnCall' = [name |-> "generate_summary", out |-> GenerateSummary(fnArg, now)]
    /\ UNCHANGED <<fnArg, procVars, textVars, extVars, rlVars>>

\* processor.analyze_content_quality(processed_pages)
CallAnalyzeContentQuality ==
    /\ fnCall = NoValue
    /\ fnCall' = [name |-> "analyze_content_quality", out |-> AnalyzeContentQuality(fnArg)]
    /\ UNCHANGED <<fnArg, procVars, textVars, extVars, rlVars>>

NextCorpus == CallGenerateSummary \/ CallAnalyzeContentQuality

SpecCorpus == InitCorpus /\ [][NextCorpus]_vars

\* a number that is zero
IsZero(value) ==
    \/ value.kind = "int" /\ value.val = 0
    \/ value.kind = "float" /\ value.num = 0

\* the dict d has the key and its value satisfies Holds
Has(d, key, Holds(_)) == key \in DOMAIN d.val /\ Holds(d.val[key])

SummaryTotals == {"total_pages", "total_words", "total_tables", "total_code_blocks", "total_comments"}
SummaryAverages == {"words_per_page", "tables_per_page", "code_blocks_per_page", "comments_per_page"}
QualityScores == {"readability", "content_completeness", "metadata_completeness", "formatting_quality"}

(***************************************************************************)
(* C19: on the empty document list both operations return, without         *)
(* raising: generate_summary a summary in which every total and every      *)
(* per-page average is present and zero and there is no date range;        *)
(* analyze_content_quality all four averages 0, all four ranges (0, 0) and *)
(* quality_score 0.                                                        *)
(***************************************************************************)
C19_EmptyCorpusAllZero ==
    (fnArg = <<>> /\ fnCall # NoValue) =>
        /\ fnCall.out.kind = "dict"
        /\ Called("generate_summary") =>
              /\ \A key \in SummaryTotals : Has(fnCall.out, key, IsZero)
              /\ Has(fnCall.out, "averages",
                     LAMBDA averages : \A key \in SummaryAverages : Has(averages, key, IsZero))
              /\ \/ "date_range" \notin DOMAIN fnCall.out.val
                 \/ fnCall.out.val.date_range \in
                        {None, PyDict([oldest_page |-> None, newest_page |-> None])}
        /\ Called("analyze_content_quality") =>
              /\ \A key \in QualityScores :
                    /\ IsZero(fnCall.out.val.averages.val[key])
                    /\ IsZero(fnCall.out.val.ranges.val[key][1])
                    /\ IsZero(fnCall.out.val.ranges.val[key][2])
              /\ IsZero(fnCall.out.val.quality_score)

\* the number of entries of the list under key in a document
Entries(doc, key) == Len(Field(doc, key, PyList(<<>>)).val)

\* the float is the fraction total / count rounded to two decimals
IsRounded(average, total, count) ==
    /\ average.kind = "float"
    /\ 100 % average.den = 0
    /\ LET off == average.num * count - total * average.den
       IN  200 * (IF off < 0 THEN -off ELSE off) <= average.den * count

(***************************************************************************)
(* C20: for every non-empty document list generate_summary returns         *)
(* total_pages, the number of documents; total_words, the sum of the       *)
(* numbers of whitespace-separated tokens of the contents; total_tables,   *)
(* total_code_blocks and total_comments, the summed list lengths; and each *)
(* per-page average, its total divided by total_pages and rounded to two   *)
(* decimals.                                                               *)
(***************************************************************************)
C20_SummaryTotalsAndAverages ==
    (fnArg # <<>> /\ Called("generate_summary")) =>
        LET count == Len(fnArg)
            total(key) == Sum([n \in 1..count |-> Entries(fnArg[n], key)])
            words == Sum([n \in 1..count |->
                            WordCount(Field(fnArg[n], "content", PyStr(<<>>)).val)])
            out == fnCall.out.val
        IN  /\ fnCall.out.kind = "dict"
            /\ out.total_pages = PyInt(count)
            /\ out.total_words = PyInt(words)
            /\ out.total_tables = PyInt(total("tables"))
            /\ out.total_code_blocks = PyInt(total("code_blocks"))
            /\ out.total_comments = PyInt(total("comments"))
            /\ IsRounded(out.averages.val.words_per_page, words, count)
            /\ IsRounded(out.averages.val.tables_per_page, total("tables"), count)
            /\ IsRounded(out.averages.val.code_blocks_per_page, total("code_blocks"), count)
            /\ IsRounded(out.averages.val.comments_per_page, total("comments"), count)

\* the dates, as isoformat strings, of the documents whose last_modified parses
ParseableDates(pages) ==
    {FromIsoFormat(Field(Field(pages[n], "metadata", EmptyDict), "last_modified", None)).val :
        n \in {m \in 1..Len(pages) :
                LET modified == Field(Field(pages[m], "metadata", EmptyDict), "last_modified", None)
                IN  modified.kind = "str" /\ FromIsoFormat(modified).kind = "str"}}

(***************************************************************************)
(* C21: generate_summary on a non-empty list does not raise, whatever the  *)
(* last_modified values are; oldest_page and newest_page are the minimum   *)
(* and the maximum of the dates that parse, and both are None when no      *)
(* document has a date that parses.                                        *)
(***************************************************************************)
C21_DateRangeFromParseableDates ==
    (fnArg # <<>> /\ Called("generate_summary")) =>
        /\ fnCall.out.kind = "dict"
        /\ LET range == fnCall.out.val.date_range.val
               dates == ParseableDates(fnArg)
           IN  IF dates = {} THEN range.oldest_page = None /\ range.newest_page = None
               ELSE /\ range.oldest_page.kind = "str" /\ range.newest_page.kind = "str"
                    /\ range.oldest_page.val \in dates /\ range.newest_page.val \in dates
                    /\ \A d \in dates : /\ ~Earlier(d, range.oldest_page.val)
                                        /\ ~Earlier(range.newest_page.val, d)

\* a number between 0 and 100
InScoreRange(value) ==
    \/ value.kind = "int" /\ value.val \in 0..100
    \/ value.kind = "float" /\ value.num >= 0 /\ value.num <= 100 * value.den

(***************************************************************************)
(* C22: the readability score of every document lies in [0, 100], whatever *)
(* its ratio of words to sentences, and so do the readability average and  *)
(* both ends of the readability range that analyze_content_quality         *)
(* returns.                                                                *)
(***************************************************************************)
C22_ReadabilityInRange ==
    (Called("analyze_content_quality") /\ fnCall.out.kind = "dict") =>
        /\ InScoreRange(fnCall.out.val.averages.val.readability)
        /\ InScoreRange(fnCall.out.val.ranges.val.readability[1])
        /\ InScoreRange(fnCall.out.val.ranges.val.readability[2])
        /\ \A n \in 1..Len(fnArg) :
              InScoreRange(Readability(Field(fnArg[n], "content", PyStr(<<>>)).val))

\* a list with the content of ManyWords words and no terminator, one with empty
\* content and one of a long sentence: the range is (0, 100)
C22_Witness ==
    /\ Called("analyze_content_quality")
    /\ fnCall.out.kind = "dict"
    /\ \E a, b, c \in 1..Len(fnArg) :
          /\ fnArg[a].val.content.val = WordsText(ManyWords)
          /\ fnArg[b].val.content.val = <<>>
          /\ fnArg[c].val.content.val = WordsText(LongSentence) \o <<".">>
    /\ fnCall.out.val.ranges.val.readability = <<PyFloat(0, 1), PyFloat(100, 1)>>
    /\ fnCall.out.val.averages.val.readability.num > 0

\* the runs of text of a content that end with '.', '!' or '?'
TerminatedRuns(content) ==
    Cardinality({k \in 1..Len(content) :
        content[k] \in SentenceEnd /\ (k = 1 \/ content[k - 1] \notin SentenceEnd)})

\* clamp(0, 100, 206.835 - 1.015 * (word_count / max(sentence_count, 1))) with
\* the terminated runs as sentence_count
ScoreOfTerminatedRuns(content) ==
    LET runs == IF TerminatedRuns(content) > 1 THEN TerminatedRuns(content) ELSE 1
        score == Fraction(206835 * runs - 1015 * WordCount(content), 1000 * runs)
    IN  IF score.num < 0 THEN PyFloat(0, 1)
        ELSE IF score.num > 100 * score.den THEN PyFloat(100, 1)
        ELSE score

(***************************************************************************)
(* C23: the readability score of a document is                             *)
(* clamp(0, 100, 206.835 - 1.015 * (word_count / max(sentence_count, 1))), *)
(* word_count the number of whitespace-separated tokens of its content and *)
(* sentence_count the number of runs of text terminated by '.', '!' or     *)
(* '?': the readability range of a list is the least and the greatest of   *)
(* these scores.                                                           *)
(***************************************************************************)
C23_ScoreCountsTerminatedRuns ==
    (fnArg # <<>> /\ Called("analyze_content_quality") /\ fnCall.out.kind = "dict") =>
        LET score(n) == ScoreOfTerminatedRuns(Field(fnArg[n], "content", PyStr(<<>>)).val)
            range == fnCall.out.val.ranges.val.readability
        IN  /\ \E n \in 1..Len(fnArg) : score(n) = range[1]
            /\ \E n \in 1..Len(fnArg) : score(n) = range[2]
            /\ \A n \in 1..Len(fnArg) :
                  ~FloatLess(score(n), range[1]) /\ ~FloatLess(range[2], score(n))

(***************************************************************************)
(* C24: a Corpus Analyzer operation that fails on a non-empty corpus       *)
(* raises a typed analysis error, AnalysisError, whose details carry the   *)
(* size of the corpus; no exception of another type reaches the caller.    *)
(***************************************************************************)
C24_AnalysisErrorCarriesCorpusSize ==
    (fnArg # <<>> /\ (Called("generate_summary") \/ Called("analyze_content_quality"))
        /\ fnCall.out.kind = "raise") =>
        /\ fnCall.out.exc = "AnalysisError"
        /\ fnCall.out.details.kind = "dict"
        /\ \E key \in DOMAIN fnCall.out.details.val :
              fnCall.out.details.val[key] = PyInt(Len(fnArg))

(***************************************************************************)
(* handle_errors: the wrapper of a function, given by what the function    *)
(* does when it is called: it returns a value or raises an exception.      *)
(***************************************************************************)
BaseErrors ==
    {"BaseError", "ConfigurationError", "RateLimitError", "ConfluenceAPIError", "ProcessingError"}

\* subclasses of Exception that are no BaseError, and exceptions that are no
\* Exception
OtherExceptions == {"ValueError", "KeyError", "RuntimeError"}
NonExceptions == {"KeyboardInterrupt", "SystemExit"}

\* isinstance(e, BaseError) read as type(e) is BaseError (mutation of
\* IsBaseError)
IsExactlyBaseError(exc) == exc = "BaseError"

\* isinstance(e, BaseError)
IsBaseError(exc) == exc \in BaseErrors

Returns(value) == [kind |-> "returns", val |-> value]

\* raise cls(message, status_code, details), cls a BaseError
Raises(exc, message, status_code, details) ==
    [kind |-> "raises", exc |-> exc, message |-> message, status_code |-> status_code,
     details |-> details]

\* raise cls(message), cls no BaseError
RaisesOther(exc, message) == [kind |-> "raises", exc |-> exc, message |-> message]

ErrorResponse(message, error_type, status_code, details) ==
    [kind |-> "ErrorResponse", message |-> message, error_type |-> error_type,
     status_code |-> status_code, details |-> details]

\* wrapper(*args, **kwargs) for a function that ends with outcome
HandleErrors(outcome) ==
    IF outcome.kind = "returns" THEN outcome
    ELSE IF IsBaseError(outcome.exc)
    THEN Returns(ErrorResponse(outcome.message, outcome.exc, outcome.status_code,
                               outcome.details))
    ELSE IF outcome.exc \in OtherExceptions
    THEN Returns(ErrorResponse("An unexpected error occurred", "UnexpectedError", 500,
                               PyDict([original_error |-> outcome.message])))
    ELSE outcome

Messages == {"Test error", ""}
StatusCodes == {400, 404, 500}
DetailsChoices == {None, PyDict([test |-> "detail"])}

WrappedOutcomes ==
    {Raises(exc, message, status_code, details) :
        exc \in BaseErrors, message \in Messages, status_code \in StatusCodes,
        details \in DetailsChoices}
    \cup {RaisesOther(exc, message) :
            exc \in OtherExceptions \cup NonExceptions, message \in Messages}
    \cup {Returns(value) :
            value \in {None, PyInt(0), PyInt(1), ErrorResponse("m", "BaseError", 500, None)}}

InitWrapped ==
    /\ ProcessorInit({})
    /\ metrics = NoMetrics
    /\ req = [c \in Calls |-> IdleRequest]
    /\ TextIdle
    /\ fnArg \in WrappedOutcomes
    /\ fnCall = NoValue
    /\ ServicesIdle

\* a call of the function handle_errors returned
CallWrapped ==
    /\ fnCall = NoValue
    /\ fnCall' = [name |-> "handle_errors", out |-> HandleErrors(fnArg)]
    /\ UNCHANGED <<fnArg, procVars, textVars, extVars, rlVars>>

SpecWrapped == InitWrapped /\ [][CallWrapped]_vars

(***************************************************************************)
(* C25: a function wrapped by handle_errors propagates no Exception.  When *)
(* the function raises a BaseError or one of its subclasses, the wrapper   *)
(* returns an ErrorResponse with that error's message, class name,         *)
(* status_code and details; when it raises another Exception, an           *)
(* ErrorResponse with error_type "UnexpectedError" and status_code 500;    *)
(* when it returns, the wrapper returns the same value.                    *)
(***************************************************************************)
C25_WrapperReturnsErrorResponse ==
    Called("handle_errors") =>
        LET out == fnCall.out
        IN  /\ fnArg.kind = "returns" => out = fnArg
            /\ (fnArg.kind = "raises" /\ fnArg.exc \in BaseErrors) =>
                  /\ out.kind = "returns"
                  /\ out.val = ErrorResponse(fnArg.message, fnArg.exc, fnArg.status_code,
                                             fnArg.details)
            /\ (fnArg.kind = "raises" /\ fnArg.exc \in OtherExceptions) =>
                  /\ out.kind = "returns"
                  /\ out.val.kind = "ErrorResponse"
                  /\ out.val.error_type = "UnexpectedError"
                  /\ out.val.status_code = 500
            /\ out.kind = "raises" => out.exc \in NonExceptions

\* the function raised a subclass of BaseError with details and a status code
\* of its own
C25_Witness ==
    /\ Called("handle_errors")
    /\ fnArg.kind = "raises"
    /\ fnArg.exc = "ConfluenceAPIError"
    /\ fnArg.status_code = 404
    /\ fnArg.details # None
    /\ fnCall.out.val.error_type = "ConfluenceAPIError"

(***************************************************************************)
(* ConfluenceExtractor.get_space_content under cached("space_content",     *)
(* expire).  The source of a space is given by the batches it answers the  *)
(* successive requests with; after them it answers with an empty batch, or *)
(* with its last batch again for ever.                                     *)
(***************************************************************************)
\* limit = 100
Limit == 100

\* expire=timedelta(hours=1), in ticks of half an hour
Expire == 2

MaxTime == 3
MaxCalls == 3
MaxRequests == 4
MaxBatches == 2

SpaceKeys == {"TEST", "DOCS"}

\* a page as the source gives it
SourcePage(id) ==
    [id |-> id, title |-> <<"Test Page", id>>,
     body |-> [storage |-> [value |-> <<"test content", id>>]],
     version |-> [number |-> 1, when |-> "2024-01-01"]]

Batches == {<<SourcePage("123")>>, <<SourcePage("124"), SourcePage("125")>>}

Sources ==
    {[batches |-> b, endless |-> e] :
        b \in SeqsUpTo(Batches, MaxBatches), e \in BOOLEAN} \ {[batches |-> <<>>, endless |-> TRUE]}

\* self.confluence.get_all_pages_from_space(space, start, limit, expand)
GetAllPagesFromSpace(space, start) ==
    LET source == confluence[space]
        k == (start \div Limit) + 1
    IN  IF k <= Len(source.batches) THEN source.batches[k]
        ELSE IF source.endless THEN source.batches[Len(source.batches)]
        ELSE <<>>

\* the record of lines 33-40; base_url is "http://test"
PageRecord(space, page) ==
    [id |-> page.id, title |-> page.title, content |-> page.body.storage.value,
     url |-> <<"http://test", "/wiki/spaces/", space, "/pages/", page.id>>,
     version |-> page.version.number, last_modified |-> page.version.when]

\* the ways to call get_space_content for a space: get_space_content(key) and
\* get_space_content(space_key=key)
ExtractorCalls == {[space |-> space, keyword |-> k] : space \in SpaceKeys, k \in BOOLEAN}

\* cache_manager.cache_key("space_content", *args, **kwargs)
CacheKey(call) ==
    IF call.keyword THEN "space_content" \o ":" \o "space_key" \o ":" \o call.space
    ELSE "space_content" \o ":" \o call.space

\* a result that is falsy counts as a miss (mutation of IsMiss)
IsFalsy(value) == value = None \/ value.val = <<>>

\* cache.py 45: result is None
IsMiss(value) == value = None

\* cache_manager.get(key): None for a key that is absent or expired
CacheGet(key) ==
    IF redis[key] # NoValue /\ time < redis[key].expires THEN redis[key].val ELSE None

\* the request of line 26
Request(space, start) ==
    [space |-> space, start |-> start, limit |-> Limit, expand |-> "body.storage,version"]

InitExtractor ==
    /\ ProcessorInit({})
    /\ metrics = NoMetrics
    /\ req = [c \in Calls |-> IdleRequest]
    /\ TextIdle
    /\ FnIdle
    /\ cache_manager \in BOOLEAN
    /\ redis = [key \in {CacheKey(call) : call \in ExtractorCalls} |-> NoValue]
    /\ confluence \in [SpaceKeys -> Sources]
    /\ time = 0
    /\ ex = [pc |-> "idle", calls |-> 0]
    /\ limiter = NoValue
    /\ zset = {}
    /\ passed = <<>>

\* cache.py 38-45: extractor.get_space_content is called; on a hit the
\* wrapper returns the stored value, otherwise the method starts
GetSpaceContent(call) ==
    /\ ex.pc \in {"idle", "done"}
    /\ ex.calls < MaxCalls
    /\ LET hit == cache_manager /\ ~IsMiss(CacheGet(CacheKey(call)))
       IN  ex' = [pc |-> IF hit THEN "done" ELSE "loop", calls |-> ex.calls + 1,
                  space |-> call.space, key |-> CacheKey(call), hit |-> hit,
                  start |-> 0, pages |-> <<>>, requests |-> <<>>, answers |-> <<>>,
                  out |-> IF hit THEN CacheGet(CacheKey(call)) ELSE NoValue]
    /\ UNCHANGED <<cache_manager, redis, confluence, time, rlVars, procVars, textVars, fnVars>>

\* the loop left after a batch shorter than limit (mutation of LoopEnds)
ShortBatchEnds(results) == Len(results) < Limit

\* confluence.py 28: if not results: break
LoopEnds(results) == results = <<>>

\* confluence.py 25-43: one iteration of the loop
RequestBatch ==
    /\ ex.pc = "loop"
    /\ Len(ex.requests) < MaxRequests
    /\ LET results == GetAllPagesFromSpace(ex.space, ex.start)
           asked == [ex EXCEPT !.requests = Append(@, Request(ex.space, ex.start)),
                               !.answers = Append(@, results)]
       IN  ex' = IF LoopEnds(results) THEN [asked EXCEPT !.pc = "return"]
                 ELSE [asked EXCEPT
                         !.pages = @ \o [k \in 1..Len(results) |->
                                            PageRecord(ex.space, results[k])],
                         !.start = @ + Limit]
    /\ UNCHANGED <<cache_manager, redis, confluence, time, rlVars, procVars, textVars, fnVars>>

\* confluence.py 45 and cache.py 40, 46-49: the method returns pages, the
\* wrapper stores them when there is a cache manager and returns them
ReturnPages ==
    /\ ex.pc = "return"
    /\ ex' = [ex EXCEPT !.pc = "done", !.out = PyList(ex.pages)]
    /\ redis' = IF cache_manager
                THEN [redis EXCEPT ![ex.key] =
                        [val |-> PyList(ex.pages), expires |-> time + Expire]]
                ELSE redis
    /\ UNCHANGED <<cache_manager, confluence, time, rlVars, procVars, textVars, fnVars>>

\* half an hour passes
Tick ==
    /\ time < MaxTime
    /\ time' = time + 1
    /\ UNCHANGED <<cache_manager, redis, confluence, ex, rlVars, procVars, textVars, fnVars>>

NextExtractor ==
    \/ \E call \in ExtractorCalls : GetSpaceContent(call)
    \/ RequestBatch
    \/ ReturnPages
    \/ Tick

SpecExtractor == InitExtractor /\ [][NextExtractor]_vars

\* the thread of the call keeps running: the loop asks for its next batch, and
\* the method returns after the loop
FairSpecExtractor == SpecExtractor /\ WF_vars(RequestBatch) /\ WF_vars(ReturnPages)

\* the call of get_space_content has returned
ExReturned == ex.pc = "done"

(***************************************************************************)
(* C26: on a cache miss, get_space_content for a space whose pages all     *)
(* arrive in the first batch issues exactly one request,                   *)
(* get_all_pages_from_space(space=key, start=0, limit=100,                 *)
(* expand="body.storage,version"), and returns one record per page of that *)
(* batch, with the page's id and title and a content field.                *)
(***************************************************************************)
C26_OneRequestForOneBatch ==
    (ExReturned /\ cache_manager /\ ~ex.hit /\ Len(confluence[ex.space].batches) = 1
        /\ ~confluence[ex.space].endless) =>
        LET batch == confluence[ex.space].batches[1]
        IN  /\ ex.requests = <<Request(ex.space, 0)>>
            /\ Len(ex.out.val) = Len(batch)
            /\ \A k \in 1..Len(batch) :
                  /\ ex.out.val[k].id = batch[k].id
                  /\ ex.out.val[k].title = batch[k].title
                  /\ "content" \in DOMAIN ex.out.val[k]

\* the key is in the cache: stored and not yet expired
InCache(key) == redis[key] # NoValue /\ time < redis[key].expires

\* the step is the start of a call of the wrapped method
CallStarts == ex'.calls # ex.calls

\* the step is the return of the underlying method
MethodReturns == ex.pc = "return" /\ ex'.pc = "done"

(***************************************************************************)
(* C28: under cached(prefix, expire), with a cache manager, a call whose   *)
(* key is not in the cache runs the underlying method, once, and its       *)
(* result is stored under the key to expire after the given time; a call   *)
(* whose key is in the cache and not expired returns the stored value      *)
(* without running the method and without storing; without cache manager   *)
(* every call runs the method and nothing is ever stored.                  *)
(***************************************************************************)
C28_CachedRunsOnceThenReuses ==
    [][/\ (CallStarts /\ cache_manager /\ ~InCache(ex'.key)) => ex'.pc = "loop"
       /\ (CallStarts /\ cache_manager /\ InCache(ex'.key)) =>
             /\ ex'.pc = "done"
             /\ ex'.requests = <<>>
             /\ ex'.out = redis[ex'.key].val
             /\ redis' = redis
       /\ (CallStarts /\ ~cache_manager) => ex'.pc = "loop"
       /\ ex.pc = "loop" => ex'.calls = ex.calls /\ ex'.pc \in {"loop", "return"}
       /\ MethodReturns =>
             /\ Cardinality({k \in 1..Len(ex.requests) : ex.requests[k].start = 0}) = 1
             /\ ex'.out = PyList(ex.pages)
             /\ redis' = IF cache_manager
                         THEN [redis EXCEPT ![ex.key] =
                                [val |-> ex'.out, expires |-> time + Expire]]
                         ELSE redis
       /\ ~cache_manager => \A key \in DOMAIN redis : redis'[key] = NoValue]_vars

\* a call answered from the cache, for a key stored after the start, with the
\* pages an earlier call had fetched
C28_Witness ==
    /\ ExReturned
    /\ ex.hit
    /\ ex.requests = <<>>
    /\ ex.out.val # <<>>
    /\ redis[ex.key].expires > Expire
    /\ time < redis[ex.key].expires

\* the method has been entered by the current call
MethodRuns == ex.pc # "idle" /\ ~ex.hit

\* the method has left its loop
LoopLeft == ex.pc \in {"return", "done"}

\* the records of the pages of the batches, in the order of the batches
RecordsOf(space, batches) ==
    Flatten([k \in 1..Len(batches) |->
                [n \in 1..Len(batches[k]) |-> PageRecord(space, batches[k][n])]])

\* the requests made so far are those for start = 0, 100, 200, ... in that
\* order, the loop is left when and only when the last of them was answered
\* with an empty batch, and what is returned are the records of the batches
\* received before it, in request order, one per page of a batch
RunsToEmptyBatch ==
    /\ \A k \in 1..Len(ex.requests) : ex.requests[k] = Request(ex.space, (k - 1) * Limit)
    /\ \A k \in 1..(Len(ex.answers) - 1) : ex.answers[k] # <<>>
    /\ LoopLeft <=> (ex.answers # <<>> /\ ex.answers[Len(ex.answers)] = <<>>)
    /\ LoopLeft => ~confluence[ex.space].endless
    /\ ExReturned =>
          /\ ex.out.kind = "list"
          /\ ex.out.val = RecordsOf(ex.space, SubSeq(ex.answers, 1, Len(ex.answers) - 1))

MaxLimit == 2
MaxWindow == 3
MaxSeconds == 4
MaxLimitedCalls == 4

Max(S) == CHOOSE m \in S : \A n \in S : n <= m

\* the sorted set a command finds at second current: redis has deleted the key
\* when the time set by the last expire(key, window_seconds) ran out
KeyAt(current) ==
    IF zset # {} /\ current >= Max(zset) + limiter.window THEN {} ELSE zset

\* zadd(key, {str(current): current}): the member is the second, so a second
\* that is a member already stays one member
ZAdd(members, current) == members \cup {current}

\* zremrangebyscore(key, 0, current - window_seconds)
ZRemRangeByScore(members, low, high) == {m \in members : ~(low <= m /\ m <= high)}

\* the sorted set after the pipeline of is_rate_limited at second current
Pipeline(current) ==
    ZRemRangeByScore(ZAdd(KeyAt(current), current), 0, current - limiter.window)

\* is_rate_limited(key, limit, window): results[2] > limit
IsRateLimited(current) == Cardinality(Pipeline(current)) > limiter.limit

InitLimited ==
    /\ ProcessorInit({})
    /\ metrics = NoMetrics
    /\ req = [c \in Calls |-> IdleRequest]
    /\ TextIdle
    /\ FnIdle
    /\ cache_manager = FALSE
    /\ redis = <<>>
    /\ confluence = <<>>
    /\ time = 0
    /\ ex = NoValue
    /\ limiter \in [limit : 1..MaxLimit, window : 1..MaxWindow]
    /\ zset = {}
    /\ passed = <<>>

\* the number of calls of the wrapped function so far
LimitedCalls == IF fnCall = NoValue THEN 0 ELSE fnCall.n

\* rate_limiting.py 33-44: a call of the wrapped function at the current second
CallLimited ==
    /\ LimitedCalls < MaxLimitedCalls
    /\ zset' = Pipeline(time)
    /\ IF IsRateLimited(time)
       THEN /\ fnCall' = [name |-> "rate_limit", n |-> LimitedCalls + 1,
                          out |-> RaisesOther("Exception", "Rate limit exceeded")]
            /\ UNCHANGED passed
       ELSE /\ fnCall' = [name |-> "rate_limit", n |-> LimitedCalls + 1, out |-> Returns(None)]
            /\ passed' = Append(passed, time)
    /\ UNCHANGED <<fnArg, limiter, procVars, textVars, extVars>>

\* a second passes
Second ==
    /\ time < MaxSeconds
    /\ time' = time + 1
    /\ UNCHANGED <<cache_manager, redis, confluence, ex, rlVars, procVars, textVars, fnVars>>

NextLimited == CallLimited \/ Second

SpecLimited == InitLimited /\ [][NextLimited]_vars

\* the calls let through from second t on and before second t + window
PassedWithin(t) ==
    Cardinality({k \in 1..Len(passed) : t <= passed[k] /\ passed[k] < t + limiter.window})

(***************************************************************************)
(* C29: under rate_limit(limit, window), at most `limit` calls are let     *)
(* through within any time span of length `window`, also when several      *)
(* calls arrive within the same second, and a call that is not let through *)
(* raises "Rate limit exceeded".                                           *)
(***************************************************************************)
C29_AtMostLimitCallsPerWindow ==
    /\ \A t \in 0..MaxSeconds : PassedWithin(t) <= limiter.limit
    /\ (Called("rate_limit") /\ fnCall.out.kind # "returns") =>
          fnCall.out = RaisesOther("Exception", "Rate limit exceeded")

(***************************************************************************)
(* The content of a document process_page returns, given to               *)
(* analyze_content_quality.  The markup is made of pieces among which are  *)
(* the escaped angle brackets, so that the text the parser returns can     *)
(* hold "<p>" as characters.                                               *)
(***************************************************************************)
MaxQualityPieces == 4

QualityPieces ==
    {<<"p">>, <<" ">>, <<"&", "l", "t", ";">>, <<"&", "g", "t", ";">>,
     <<"<", "p", ">">>, <<"<", "/", "p", ">">>}

QualityPages ==
    {[content |-> Missing], [content |-> None]}
    \cup {[content |-> PyStr(m)] :
            m \in {n \in {Flatten(q) : q \in SeqsUpTo(QualityPieces, MaxQualityPieces)} :
                      Supported(n)}}

InitQuality ==
    /\ ProcessorInit({})
    /\ metrics = NoMetrics
    /\ req = [c \in Calls |-> IdleRequest]
    /\ txPage \in QualityPages
    /\ txResult = NoValue
    /\ txAgain = NoValue
    /\ FnIdle
    /\ ServicesIdle

\* processor.py 66-91: the document of the page, whose content is the text
\* _process_text returned or the default when it raised
ProcessedDocument(text) ==
    PyDict([content |-> IF text.kind = "raise" THEN DefaultFor("text") ELSE text,
            metadata |-> MetadataWith(PyStr(<<>>)),
            tables |-> PyList(<<>>), code_blocks |-> PyList(<<>>),
            attachments |-> PyList(<<>>), comments |-> PyList(<<>>)])

\* processor.analyze_content_quality([processor.process_page(page)])
AnalyzeProcessed ==
    /\ txResult # NoValue
    /\ fnCall = NoValue
    /\ fnArg' = PyList(<<ProcessedDocument(txResult)>>)
    /\ fnCall' = [name |-> "analyze_content_quality",
                  out |-> AnalyzeContentQuality(<<ProcessedDocument(txResult)>>)]
    /\ UNCHANGED <<procVars, textVars, extVars, rlVars>>

NextQuality == CallProcessText \/ AnalyzeProcessed

SpecQuality == InitQuality /\ [][NextQuality]_vars

\* the text the parser returns for the page, before the tag pattern is applied
ParsedText(page) == GetText(Nodes(Events(page.content.val), <<>>, FALSE))

(***************************************************************************)
(* C27: every document process_page returns gets formatting_quality        *)
(* exactly 0 from analyze_content_quality: the tag pattern has removed     *)
(* every "<...>" from its content, so none of the five indicators is in it.*)
(***************************************************************************)
C27_FormattingQualityIsZero ==
    Called("analyze_content_quality") =>
        /\ fnCall.out.kind = "dict"
        /\ IsZero(fnCall.out.val.averages.val.formatting_quality)
        /\ IsZero(fnCall.out.val.ranges.val.formatting_quality[1])
        /\ IsZero(fnCall.out.val.ranges.val.formatting_quality[2])

\* the text of the page held "<p>" as characters beside a word, and the
\* document was analyzed
C27_Witness ==
    /\ Called("analyze_content_quality")
    /\ txPage.content.kind = "str"
    /\ Contains(ParsedText(txPage), <<"<", "p", ">">>)
    /\ txResult.kind = "str"
    /\ txResult.val # <<>>

====
